---- MODULE Spec2Model ----
(***************************************************************************)
(* A model of the SPIKE AI backend: the orchestrator (intent detection and *)
(* routing), the GA4 agent's parse / validate / execute pipeline, the      *)
(* allowlist validator, the plan parser with its keyword fallback, and the *)
(* date-range resolver.                                                    *)
(*                                                                         *)
(* A Python str is modelled as a sequence of one-character strings, so     *)
(* that lower(), replace(), the "in" substring test and re.search are      *)
(* computed character by character.  Metric and dimension names, which the *)
(* code only compares for equality and set membership, are atomic strings. *)
(***************************************************************************)
EXTENDS Integers, Sequences, FiniteSets, TLC

VARIABLES
    cred,               \* state of credentials.json: "absent", "invalid", "valid"
    orch,               \* module-level Orchestrator(): "none", "ok", "failed"
    credentials_valid,  \* GA4Agent.credentials_valid
    client,             \* GA4Agent.client: "None" or "client"
    df,                 \* SEOAgent.df, the dataset loaded at construction
    pc,                 \* position inside Orchestrator.handle / the agents' run
    req,                \* the QueryRequest being handled
    needs,              \* [ga4, seo]: the two detected intents
    responses,          \* handle's local dict: domain -> response
    result,             \* what handle returned for the current request
    run,                \* locals of GA4Agent.run: plan, validated and executed plan, fault caught
    agents,             \* per domain: whether the agent's run returned or raised, and what
    calls,              \* the calls made while handling the current request, in order
    unit                \* the last direct call of one of the pure functions

vars == <<cred, orch, credentials_valid, client, df, pc, req, needs, responses,
          result, run, agents, calls, unit>>

-----------------------------------------------------------------------------
(* Bounds of the model *)

\* longest metric / dimension list an enumerated plan carries
MaxList == 2
\* most words of a query built from the vocabulary
MaxWords == 2
\* most rows the reporting backend returns
MaxRows == 2
\* most entries of a metric / dimension list in a decoded model answer
MaxPlanList == 1
\* most rows of an enumerated audit dataset
MaxPages == 2

-----------------------------------------------------------------------------
(* Python str and list primitives *)

UpperToLower ==
    [c \in {"A","B","C","D","E","F","G","H","I","J","K","L","M","N","O","P","Q",
            "R","S","T","U","V","W","X","Y","Z"} |->
        CASE c = "A" -> "a" [] c = "B" -> "b" [] c = "C" -> "c" [] c = "D" -> "d"
          [] c = "E" -> "e" [] c = "F" -> "f" [] c = "G" -> "g" [] c = "H" -> "h"
          [] c = "I" -> "i" [] c = "J" -> "j" [] c = "K" -> "k" [] c = "L" -> "l"
          [] c = "M" -> "m" [] c = "N" -> "n" [] c = "O" -> "o" [] c = "P" -> "p"
          [] c = "Q" -> "q" [] c = "R" -> "r" [] c = "S" -> "s" [] c = "T" -> "t"
          [] c = "U" -> "u" [] c = "V" -> "v" [] c = "W" -> "w" [] c = "X" -> "x"
          [] c = "Y" -> "y" [] c = "Z" -> "z"]

\* str.lower()
Lower(s) == [i \in 1..Len(s) |-> IF s[i] \in DOMAIN UpperToLower THEN UpperToLower[s[i]] ELSE s[i]]

\* str.replace(" ", "_")
ReplaceSpaces(s) == [i \in 1..Len(s) |-> IF s[i] = " " THEN "_" ELSE s[i]]

\* k in s, for two strs: substring containment
Contains(s, k) == \E i \in 0..(Len(s) - Len(k)) : SubSeq(s, i + 1, i + Len(k)) = k

\* any(word in s for word in words)
AnyIn(s, words) == \E j \in 1..Len(words) : Contains(s, words[j])

\* x in lst, for a list
InList(x, lst) == \E j \in 1..Len(lst) : lst[j] = x

Digits == <<"0","1","2","3","4","5","6","7","8","9">>

IsDigit(c) == InList(c, Digits)

DigitValue(c) == (CHOOSE j \in 1..10 : Digits[j] = c) - 1

\* int(s) for a str of decimal digits
RECURSIVE StrToInt(_)
StrToInt(s) ==
    IF Len(s) = 0 THEN 0
    ELSE 10 * StrToInt(SubSeq(s, 1, Len(s) - 1)) + DigitValue(s[Len(s)])

\* str(n) for a natural number
RECURSIVE IntToStr(_)
IntToStr(n) ==
    IF n < 10 THEN <<Digits[n + 1]>>
    ELSE IntToStr(n \div 10) \o <<Digits[(n % 10) + 1]>>

-----------------------------------------------------------------------------
(* JSON / Python values held in a plan.  k is the Python type of the value:*)
(* "list" (v: its entries), "str" (v: its characters), "null" (None), and  *)
(* "absent" for a key the mapping does not hold.                           *)

ListVal(v) == [k |-> "list", v |-> v]
StrVal(v) == [k |-> "str", v |-> v]
NullVal == [k |-> "null", v |-> <<>>]
AbsentVal == [k |-> "absent", v |-> <<>>]

PlanKeys == {"metrics", "dimensions", "date_range"}

\* A parsed value handed on as a plan.  k = "obj" is a dict; "list" and "str"
\* are a JSON array / string, for which has is the set of key names the
\* Python test "key in plan" answers True for.
DictPlan(m, d, r) ==
    [k |-> "obj",
     has |-> {x \in PlanKeys : \/ x = "metrics" /\ m.k # "absent"
                               \/ x = "dimensions" /\ d.k # "absent"
                               \/ x = "date_range" /\ r.k # "absent"},
     metrics |-> m, dimensions |-> d, date_range |-> r]

NonDictPlan(kind, has) ==
    [k |-> kind, has |-> has, metrics |-> AbsentVal, dimensions |-> AbsentVal,
     date_range |-> AbsentVal]

NoPlan == NonDictPlan("none", {})

-----------------------------------------------------------------------------
(* app/utils/ga4_validation.py *)

ALLOWED_METRICS ==
    {"sessions", "totalUsers", "screenPageViews", "activeUsers", "newUsers",
     "bounceRate", "averageSessionDuration", "conversions", "eventCount",
     "engagementRate"}

ALLOWED_DIMENSIONS ==
    {"date", "pagePath", "pageTitle", "sessionSource", "sessionMedium",
     "sessionCampaign", "country", "city", "deviceCategory", "operatingSystem",
     "browser", "eventName", "landingPage"}

\* metric -> the dimensions listed as compatible; the validator never reads it
COMPATIBLE_COMBINATIONS ==
    [m \in {"sessions", "totalUsers", "screenPageViews", "bounceRate", "conversions"} |->
        CASE m = "sessions" -> <<"date", "pagePath", "sessionSource", "country", "deviceCategory">>
          [] m = "totalUsers" -> <<"date", "country", "deviceCategory", "sessionSource">>
          [] m = "screenPageViews" -> <<"date", "pagePath", "pageTitle">>
          [] m = "bounceRate" -> <<"date", "pagePath", "sessionSource">>
          [] m = "conversions" -> <<"date", "eventName", "sessionSource">>]

\* for comparison: a validator that reports only the first unknown metric
validate_metrics_first_only(metrics) ==
    LET invalid_metrics == SelectSeq(metrics, LAMBDA m : m \notin ALLOWED_METRICS)
    IN  [is_valid |-> Len(invalid_metrics) = 0,
         invalid |-> IF Len(invalid_metrics) = 0 THEN <<>> ELSE <<invalid_metrics[1]>>]

\* validate_metrics(metrics) for an iterable value: (is_valid, invalid_metrics)
validate_metrics(metrics) ==
    LET invalid_metrics == SelectSeq(metrics, LAMBDA m : m \notin ALLOWED_METRICS)
    IN  [is_valid |-> Len(invalid_metrics) = 0, invalid |-> invalid_metrics]

validate_dimensions(dimensions) ==
    LET invalid_dimensions == SelectSeq(dimensions, LAMBDA d : d \notin ALLOWED_DIMENSIONS)
    IN  [is_valid |-> Len(invalid_dimensions) = 0, invalid |-> invalid_dimensions]

ErrInvalidMetrics(names) == [kind |-> "Invalid metrics", names |-> names]
ErrInvalidDimensions(names) == [kind |-> "Invalid dimensions", names |-> names]
ErrNoMetric == [kind |-> "At least one metric is required", names |-> <<>>]
ErrNoDateRange == [kind |-> "Date range is required", names |-> <<>>]

\* Reading plan[key] and iterating it: a TypeError when plan is not a dict
\* (indexing a list or a str by a key) or the value is None.
Iterable(plan, val) == plan.k = "obj" /\ val.k \in {"list", "str"}

\* not plan["metrics"]: an empty list, an empty str and None are falsy
Falsy(val) == val.k = "null" \/ (val.k \in {"list", "str"} /\ Len(val.v) = 0)

\* for comparison: a validator that also enforces COMPATIBLE_COMBINATIONS
validate_plan_compat(plan) ==
    LET typeErr == \/ "metrics" \in plan.has /\ ~Iterable(plan, plan.metrics)
                   \/ "dimensions" \in plan.has /\ ~Iterable(plan, plan.dimensions)
        e1 == IF "metrics" \in plan.has /\ ~validate_metrics(plan.metrics.v).is_valid
              THEN <<ErrInvalidMetrics(validate_metrics(plan.metrics.v).invalid)>> ELSE <<>>
        e2 == IF "dimensions" \in plan.has /\ ~validate_dimensions(plan.dimensions.v).is_valid
              THEN <<ErrInvalidDimensions(validate_dimensions(plan.dimensions.v).invalid)>>
              ELSE <<>>
        e3 == IF "metrics" \notin plan.has \/ Falsy(plan.metrics)
              THEN <<ErrNoMetric>> ELSE <<>>
        e4 == IF "date_range" \notin plan.has THEN <<ErrNoDateRange>> ELSE <<>>
        e5 == IF /\ "metrics" \in plan.has /\ "dimensions" \in plan.has
                 /\ \E i \in 1..Len(plan.metrics.v), j \in 1..Len(plan.dimensions.v) :
                        /\ plan.metrics.v[i] \in DOMAIN COMPATIBLE_COMBINATIONS
                        /\ ~InList(plan.dimensions.v[j], COMPATIBLE_COMBINATIONS[plan.metrics.v[i]])
              THEN <<[kind |-> "Incompatible combination", names |-> <<>>]>> ELSE <<>>
        errors == e1 \o e2 \o e3 \o e4 \o e5
    IN  IF typeErr THEN [exc |-> "TypeError", errors |-> <<>>]
        ELSE IF Len(errors) > 0 THEN [exc |-> "ValueError", errors |-> errors]
        ELSE [exc |-> "none", errors |-> <<>>]

\* validate_plan(plan): exc = "none" is the normal return; "ValueError" carries
\* the collected errors; "TypeError" is the fault of a plan that is not a
\* mapping of iterables.
validate_plan(plan) ==
    LET typeErr == \/ "metrics" \in plan.has /\ ~Iterable(plan, plan.metrics)
                   \/ "dimensions" \in plan.has /\ ~Iterable(plan, plan.dimensions)
        e1 == IF "metrics" \in plan.has /\ ~validate_metrics(plan.metrics.v).is_valid
              THEN <<ErrInvalidMetrics(validate_metrics(plan.metrics.v).invalid)>> ELSE <<>>
        e2 == IF "dimensions" \in plan.has /\ ~validate_dimensions(plan.dimensions.v).is_valid
              THEN <<ErrInvalidDimensions(validate_dimensions(plan.dimensions.v).invalid)>>
              ELSE <<>>
        e3 == IF "metrics" \notin plan.has \/ Falsy(plan.metrics)
              THEN <<ErrNoMetric>> ELSE <<>>
        e4 == IF "date_range" \notin plan.has THEN <<ErrNoDateRange>> ELSE <<>>
        errors == e1 \o e2 \o e3 \o e4
    IN  IF typeErr THEN [exc |-> "TypeError", errors |-> <<>>]
        ELSE IF Len(errors) > 0 THEN [exc |-> "ValueError", errors |-> errors]
        ELSE [exc |-> "none", errors |-> <<>>]

-----------------------------------------------------------------------------
(* app/utils/date_parser.py *)

DateRange(start_date, end_date) == [start_date |-> start_date, end_date |-> end_date]

IsSpace(c) == c \in {" ", "\t"}

\* k occurs in s at index p
StartsWithAt(s, p, k) == p + Len(k) - 1 <= Len(s) /\ SubSeq(s, p, p + Len(k) - 1) = k

\* the three alternatives of (day|week|month), tried at position p of s
UnitAt(s, p) ==
    IF StartsWithAt(s, p, <<"d","a","y">>) THEN "day"
    ELSE IF StartsWithAt(s, p, <<"w","e","e","k">>) THEN "week"
    ELSE IF StartsWithAt(s, p, <<"m","o","n","t","h">>) THEN "month"
    ELSE "none"

\* last index of the run of digits that starts at i
DigitRunEnd(s, i) ==
    LET stops == {j \in (i + 1)..Len(s) : ~IsDigit(s[j])}
    IN  IF stops = {} THEN Len(s)
        ELSE (CHOOSE j \in stops : \A k \in stops : j <= k) - 1

\* int(s) raises ValueError on a str of more decimal digits than this
\* (sys.get_int_max_str_digits(), CPython's default)
INT_MAX_STR_DIGITS == 4300

\* first index at or after p that holds no whitespace
RECURSIVE SkipSpace(_, _)
SkipSpace(s, p) ==
    IF p <= Len(s) /\ IsSpace(s[p]) THEN SkipSpace(s, p + 1) ELSE p

\* (\d+)\s*(day|week|month)s? matches starting at index i of s
MatchesAt(s, i) ==
    /\ IsDigit(s[i])
    /\ UnitAt(s, SkipSpace(s, DigitRunEnd(s, i) + 1)) # "none"

\* re.search(r'(\d+)\s*(day|week|month)s?', s): the leftmost match, or found = FALSE.
\* A match inside a run of digits implies one at the start of the run, so the
\* leftmost match starts a run.  digits is the length of group(1), number its
\* value when int() converts it.
NumericMatch(s) ==
    LET starts == {i \in 1..Len(s) :
                      /\ IsDigit(s[i])
                      /\ (i = 1 \/ ~IsDigit(s[i - 1]))
                      /\ MatchesAt(s, i)}
    IN  IF starts = {} THEN [found |-> FALSE, digits |-> 0, number |-> 0, unit |-> "none"]
        ELSE LET i == CHOOSE x \in starts : \A y \in starts : x <= y
                 e == DigitRunEnd(s, i)
             IN  [found |-> TRUE,
                  digits |-> e - i + 1,
                  number |-> IF e - i + 1 > INT_MAX_STR_DIGITS THEN 0
                             ELSE StrToInt(SubSeq(s, i, e)),
                  unit |-> UnitAt(s, SkipSpace(s, e + 1))]

\* parse_date_range(date_label) raises ValueError: no table entry matches and
\* int() refuses the digits of the numeric match
parse_date_range_raises(date_label) ==
    LET label == ReplaceSpaces(Lower(date_label))
    IN  /\ ~InList(label, <<<<"l","a","s","t","_","7","_","d","a","y","s">>, <<"l","a","s","t","_","w","e","e","k">>, <<"p","a","s","t","_","7","_","d","a","y","s">>,
                            <<"l","a","s","t","_","1","4","_","d","a","y","s">>, <<"p","a","s","t","_","1","4","_","d","a","y","s">>, <<"t","w","o","_","w","e","e","k","s">>,
                            <<"l","a","s","t","_","3","0","_","d","a","y","s">>, <<"l","a","s","t","_","m","o","n","t","h">>, <<"p","a","s","t","_","3","0","_","d","a","y","s">>,
                            <<"l","a","s","t","_","9","0","_","d","a","y","s">>, <<"l","a","s","t","_","q","u","a","r","t","e","r">>, <<"p","a","s","t","_","9","0","_","d","a","y","s">>,
                            <<"l","a","s","t","_","y","e","a","r">>, <<"p","a","s","t","_","y","e","a","r">>, <<"l","a","s","t","_","3","6","5","_","d","a","y","s">>,
                            <<"y","e","s","t","e","r","d","a","y">>, <<"t","o","d","a","y">>, <<"c","u","r","r","e","n","t","_","d","a","y">>>>)
        /\ NumericMatch(label).found
        /\ NumericMatch(label).digits > INT_MAX_STR_DIGITS

\* for comparison: a resolver with no default for an unrecognized label
parse_date_range_no_default(date_label) ==
    LET label == ReplaceSpaces(Lower(date_label))
    IN  IF InList(label, <<<<"l","a","s","t","_","7","_","d","a","y","s">>, <<"l","a","s","t","_","w","e","e","k">>, <<"p","a","s","t","_","7","_","d","a","y","s">>>>)
            THEN DateRange(<<"7","d","a","y","s","A","g","o">>, <<"t","o","d","a","y">>)
        ELSE DateRange(<<>>, <<>>)

\* parse_date_range(date_label), date_label a str; the empty range when the
\* call raises and returns nothing
parse_date_range(date_label) ==
    LET label == ReplaceSpaces(Lower(date_label))
        numeric_match == NumericMatch(label)
        days == CASE numeric_match.unit = "day" -> numeric_match.number
                  [] numeric_match.unit = "week" -> numeric_match.number * 7
                  [] numeric_match.unit = "month" -> numeric_match.number * 30
                  [] OTHER -> 7
    IN  IF InList(label, <<<<"l","a","s","t","_","7","_","d","a","y","s">>, <<"l","a","s","t","_","w","e","e","k">>, <<"p","a","s","t","_","7","_","d","a","y","s">>>>)
            THEN DateRange(<<"7","d","a","y","s","A","g","o">>, <<"t","o","d","a","y">>)
        ELSE IF InList(label, <<<<"l","a","s","t","_","1","4","_","d","a","y","s">>, <<"p","a","s","t","_","1","4","_","d","a","y","s">>, <<"t","w","o","_","w","e","e","k","s">>>>)
            THEN DateRange(<<"1","4","d","a","y","s","A","g","o">>, <<"t","o","d","a","y">>)
        ELSE IF InList(label, <<<<"l","a","s","t","_","3","0","_","d","a","y","s">>, <<"l","a","s","t","_","m","o","n","t","h">>, <<"p","a","s","t","_","3","0","_","d","a","y","s">>>>)
            THEN DateRange(<<"3","0","d","a","y","s","A","g","o">>, <<"t","o","d","a","y">>)
        ELSE IF InList(label, <<<<"l","a","s","t","_","9","0","_","d","a","y","s">>, <<"l","a","s","t","_","q","u","a","r","t","e","r">>, <<"p","a","s","t","_","9","0","_","d","a","y","s">>>>)
            THEN DateRange(<<"9","0","d","a","y","s","A","g","o">>, <<"t","o","d","a","y">>)
        ELSE IF InList(label, <<<<"l","a","s","t","_","y","e","a","r">>, <<"p","a","s","t","_","y","e","a","r">>, <<"l","a","s","t","_","3","6","5","_","d","a","y","s">>>>)
            THEN DateRange(<<"3","6","5","d","a","y","s","A","g","o">>, <<"t","o","d","a","y">>)
        ELSE IF InList(label, <<<<"y","e","s","t","e","r","d","a","y">>>>)
            THEN DateRange(<<"y","e","s","t","e","r","d","a","y">>, <<"y","e","s","t","e","r","d","a","y">>)
        ELSE IF InList(label, <<<<"t","o","d","a","y">>, <<"c","u","r","r","e","n","t","_","d","a","y">>>>)
            THEN DateRange(<<"t","o","d","a","y">>, <<"t","o","d","a","y">>)
        ELSE IF numeric_match.found
            THEN IF numeric_match.digits > INT_MAX_STR_DIGITS
                 THEN DateRange(<<>>, <<>>)
                 ELSE DateRange(IntToStr(days) \o <<"d","a","y","s","A","g","o">>, <<"t","o","d","a","y">>)
        ELSE DateRange(<<"7","d","a","y","s","A","g","o">>, <<"t","o","d","a","y">>)

\* for comparison: a description without the lookup of known ranges
get_human_readable_range_literal(date_range) ==
    date_range.start_date \o <<" ","t","o"," ">> \o date_range.end_date

\* get_human_readable_range(date_range)
get_human_readable_range(date_range) ==
    LET start == date_range.start_date
        end == date_range.end_date
    IN  IF start = <<"7","d","a","y","s","A","g","o">> /\ end = <<"t","o","d","a","y">> THEN <<"L","a","s","t"," ","7"," ","d","a","y","s">>
        ELSE IF start = <<"1","4","d","a","y","s","A","g","o">> /\ end = <<"t","o","d","a","y">> THEN <<"L","a","s","t"," ","1","4"," ","d","a","y","s">>
        ELSE IF start = <<"3","0","d","a","y","s","A","g","o">> /\ end = <<"t","o","d","a","y">> THEN <<"L","a","s","t"," ","3","0"," ","d","a","y","s">>
        ELSE IF start = <<"y","e","s","t","e","r","d","a","y">> /\ end = <<"y","e","s","t","e","r","d","a","y">> THEN <<"Y","e","s","t","e","r","d","a","y">>
        ELSE IF start = <<"t","o","d","a","y">> /\ end = <<"t","o","d","a","y">> THEN <<"T","o","d","a","y">>
        ELSE start \o <<" ","t","o"," ">> \o end

-----------------------------------------------------------------------------
(* app/utils/llm.py *)

\* for comparison: a page rule that appends when "date" is in the dimensions
page_rule_branch_inverted(query_lower, dimensions) ==
    IF ~AnyIn(query_lower, <<<<"p","a","g","e">>, <<"u","r","l">>, <<"p","a","t","h">>>>) THEN "none"
    ELSE IF InList("date", dimensions) THEN "append" ELSE "replace"

\* _fallback_plan, the page/url/path rule: which of its two branches runs on
\* the dimensions the plan holds at that point
page_rule_branch(query_lower, dimensions) ==
    IF ~AnyIn(query_lower, <<<<"p","a","g","e">>, <<"u","r","l">>, <<"p","a","t","h">>>>) THEN "none"
    ELSE IF ~InList("date", dimensions) THEN "append" ELSE "replace"

\* for comparison: a fallback planner whose metric rules append instead of overwrite
fallback_plan_append(query) ==
    LET query_lower == Lower(query)
        \* default plan
        m0 == <<"sessions">>
        d0 == <<"date">>
        r0 == <<"l","a","s","t","_","7","_","d","a","y","s">>
        \* keyword-based metric detection
        m1 == IF AnyIn(query_lower, <<<<"u","s","e","r">>, <<"v","i","s","i","t","o","r">>, <<"a","u","d","i","e","n","c","e">>>>)
              THEN m0 \o <<"totalUsers", "activeUsers">> ELSE m0
        m2 == IF AnyIn(query_lower, <<<<"p","a","g","e"," ","v","i","e","w">>, <<"p","a","g","e","v","i","e","w">>, <<"v","i","e","w","s">>>>)
              THEN m1 \o <<"screenPageViews">> ELSE m1
        m3 == IF AnyIn(query_lower, <<<<"b","o","u","n","c","e">>, <<"e","n","g","a","g","e","m","e","n","t">>>>)
              THEN m2 \o <<"bounceRate">> ELSE m2
        \* keyword-based dimension detection
        d1 == IF AnyIn(query_lower, <<<<"p","a","g","e">>, <<"u","r","l">>, <<"p","a","t","h">>>>)
              THEN IF ~InList("date", d0) THEN Append(d0, "pagePath")
                   ELSE <<"date", "pagePath">>
              ELSE d0
        d2 == IF AnyIn(query_lower, <<<<"c","o","u","n","t","r","y">>, <<"l","o","c","a","t","i","o","n">>, <<"g","e","o">>>>)
              THEN Append(d1, "country") ELSE d1
        d3 == IF AnyIn(query_lower, <<<<"d","e","v","i","c","e">>, <<"m","o","b","i","l","e">>, <<"d","e","s","k","t","o","p">>>>)
              THEN Append(d2, "deviceCategory") ELSE d2
        \* date range detection
        r1 == IF AnyIn(query_lower, <<<<"y","e","s","t","e","r","d","a","y">>>>) THEN <<"y","e","s","t","e","r","d","a","y">>
              ELSE IF AnyIn(query_lower, <<<<"m","o","n","t","h">>, <<"3","0"," ","d","a","y","s">>>>) THEN <<"l","a","s","t","_","3","0","_","d","a","y","s">>
              ELSE IF AnyIn(query_lower, <<<<"w","e","e","k">>, <<"1","4"," ","d","a","y","s">>>>) THEN <<"l","a","s","t","_","1","4","_","d","a","y","s">>
              ELSE r0
    IN  DictPlan(ListVal(m3), ListVal(d3), StrVal(r1))

\* for comparison: a fallback planner whose metric rules stop at the first match
fallback_plan_first_match(query) ==
    LET query_lower == Lower(query)
        m0 == <<"sessions">>
        d0 == <<"date">>
        r0 == <<"l","a","s","t","_","7","_","d","a","y","s">>
        m3 == IF AnyIn(query_lower, <<<<"u","s","e","r">>, <<"v","i","s","i","t","o","r">>, <<"a","u","d","i","e","n","c","e">>>>)
              THEN <<"totalUsers", "activeUsers">>
              ELSE IF AnyIn(query_lower, <<<<"p","a","g","e"," ","v","i","e","w">>, <<"p","a","g","e","v","i","e","w">>, <<"v","i","e","w","s">>>>)
              THEN <<"screenPageViews">>
              ELSE IF AnyIn(query_lower, <<<<"b","o","u","n","c","e">>, <<"e","n","g","a","g","e","m","e","n","t">>>>)
              THEN <<"bounceRate">>
              ELSE m0
        d1 == IF AnyIn(query_lower, <<<<"p","a","g","e">>, <<"u","r","l">>, <<"p","a","t","h">>>>)
              THEN IF ~InList("date", d0) THEN Append(d0, "pagePath")
                   ELSE <<"date", "pagePath">>
              ELSE d0
        d2 == IF AnyIn(query_lower, <<<<"c","o","u","n","t","r","y">>, <<"l","o","c","a","t","i","o","n">>, <<"g","e","o">>>>)
              THEN Append(d1, "country") ELSE d1
        d3 == IF AnyIn(query_lower, <<<<"d","e","v","i","c","e">>, <<"m","o","b","i","l","e">>, <<"d","e","s","k","t","o","p">>>>)
              THEN Append(d2, "deviceCategory") ELSE d2
        r1 == IF AnyIn(query_lower, <<<<"y","e","s","t","e","r","d","a","y">>>>) THEN <<"y","e","s","t","e","r","d","a","y">>
              ELSE IF AnyIn(query_lower, <<<<"m","o","n","t","h">>, <<"3","0"," ","d","a","y","s">>>>) THEN <<"l","a","s","t","_","3","0","_","d","a","y","s">>
              ELSE IF AnyIn(query_lower, <<<<"w","e","e","k">>, <<"1","4"," ","d","a","y","s">>>>) THEN <<"l","a","s","t","_","1","4","_","d","a","y","s">>
              ELSE r0
    IN  DictPlan(ListVal(m3), ListVal(d3), StrVal(r1))

\* for comparison: a fallback planner that names the page-view metric "pageViews"
fallback_plan_page_views_name(query) ==
    LET query_lower == Lower(query)
        m0 == <<"sessions">>
        d0 == <<"date">>
        r0 == <<"l","a","s","t","_","7","_","d","a","y","s">>
        m1 == IF AnyIn(query_lower, <<<<"u","s","e","r">>, <<"v","i","s","i","t","o","r">>, <<"a","u","d","i","e","n","c","e">>>>)
              THEN <<"totalUsers", "activeUsers">> ELSE m0
        m2 == IF AnyIn(query_lower, <<<<"p","a","g","e"," ","v","i","e","w">>, <<"p","a","g","e","v","i","e","w">>, <<"v","i","e","w","s">>>>)
              THEN <<"pageViews">> ELSE m1
        m3 == IF AnyIn(query_lower, <<<<"b","o","u","n","c","e">>, <<"e","n","g","a","g","e","m","e","n","t">>>>)
              THEN <<"bounceRate">> ELSE m2
        d1 == IF AnyIn(query_lower, <<<<"p","a","g","e">>, <<"u","r","l">>, <<"p","a","t","h">>>>)
              THEN IF ~InList("date", d0) THEN Append(d0, "pagePath")
                   ELSE <<"date", "pagePath">>
              ELSE d0
        d2 == IF AnyIn(query_lower, <<<<"c","o","u","n","t","r","y">>, <<"l","o","c","a","t","i","o","n">>, <<"g","e","o">>>>)
              THEN Append(d1, "country") ELSE d1
        d3 == IF AnyIn(query_lower, <<<<"d","e","v","i","c","e">>, <<"m","o","b","i","l","e">>, <<"d","e","s","k","t","o","p">>>>)
              THEN Append(d2, "deviceCategory") ELSE d2
        r1 == IF AnyIn(query_lower, <<<<"y","e","s","t","e","r","d","a","y">>>>) THEN <<"y","e","s","t","e","r","d","a","y">>
              ELSE IF AnyIn(query_lower, <<<<"m","o","n","t","h">>, <<"3","0"," ","d","a","y","s">>>>) THEN <<"l","a","s","t","_","3","0","_","d","a","y","s">>
              ELSE IF AnyIn(query_lower, <<<<"w","e","e","k">>, <<"1","4"," ","d","a","y","s">>>>) THEN <<"l","a","s","t","_","1","4","_","d","a","y","s">>
              ELSE r0
    IN  DictPlan(ListVal(m3), ListVal(d3), StrVal(r1))

\* _fallback_plan(query): the rules in the order of the code, each reading
\* the plan the rules before it left
fallback_plan(query) ==
    LET query_lower == Lower(query)
        \* default plan
        m0 == <<"sessions">>
        d0 == <<"date">>
        r0 == <<"l","a","s","t","_","7","_","d","a","y","s">>
        \* keyword-based metric detection
        m1 == IF AnyIn(query_lower, <<<<"u","s","e","r">>, <<"v","i","s","i","t","o","r">>, <<"a","u","d","i","e","n","c","e">>>>)
              THEN <<"totalUsers", "activeUsers">> ELSE m0
        m2 == IF AnyIn(query_lower, <<<<"p","a","g","e"," ","v","i","e","w">>, <<"p","a","g","e","v","i","e","w">>, <<"v","i","e","w","s">>>>)
              THEN <<"screenPageViews">> ELSE m1
        m3 == IF AnyIn(query_lower, <<<<"b","o","u","n","c","e">>, <<"e","n","g","a","g","e","m","e","n","t">>>>)
              THEN <<"bounceRate">> ELSE m2
        \* keyword-based dimension detection
        d1 == CASE page_rule_branch(query_lower, d0) = "append" -> Append(d0, "pagePath")
                [] page_rule_branch(query_lower, d0) = "replace" -> <<"date", "pagePath">>
                [] OTHER -> d0
        d2 == IF AnyIn(query_lower, <<<<"c","o","u","n","t","r","y">>, <<"l","o","c","a","t","i","o","n">>, <<"g","e","o">>>>)
              THEN Append(d1, "country") ELSE d1
        d3 == IF AnyIn(query_lower, <<<<"d","e","v","i","c","e">>, <<"m","o","b","i","l","e">>, <<"d","e","s","k","t","o","p">>>>)
              THEN Append(d2, "deviceCategory") ELSE d2
        \* date range detection
        r1 == IF AnyIn(query_lower, <<<<"y","e","s","t","e","r","d","a","y">>>>) THEN <<"y","e","s","t","e","r","d","a","y">>
              ELSE IF AnyIn(query_lower, <<<<"m","o","n","t","h">>, <<"3","0"," ","d","a","y","s">>>>) THEN <<"l","a","s","t","_","3","0","_","d","a","y","s">>
              ELSE IF AnyIn(query_lower, <<<<"w","e","e","k">>, <<"1","4"," ","d","a","y","s">>>>) THEN <<"l","a","s","t","_","1","4","_","d","a","y","s">>
              ELSE r0
    IN  DictPlan(ListVal(m3), ListVal(d3), StrVal(r1))

\* The outcomes of litellm.completion and of reading / decoding its content:
\*   "raise"   the call itself raises
\*   "none"    message.content is None (.strip() raises AttributeError)
\*   "text"    content is not JSON (json.loads raises JSONDecodeError)
\*   "scalar"  JSON number, boolean or null
\*   "value"   JSON object, array or string: val is the decoded value
LlmOutcome(kind, val) == [kind |-> kind, val |-> val]

\* The three "if key not in plan: plan[key] = default" statements.  On a dict
\* they fill the missing keys.  On a list or str, "in" is membership or
\* substring containment, and the first key it answers False for is assigned,
\* which raises TypeError; with all three answered True nothing is assigned.
FillDefaults(plan) ==
    IF plan.k = "obj"
    THEN [fault |-> FALSE,
          plan |-> DictPlan(
              IF "metrics" \in plan.has THEN plan.metrics ELSE ListVal(<<"sessions">>),
              IF "dimensions" \in plan.has THEN plan.dimensions ELSE ListVal(<<"date">>),
              IF "date_range" \in plan.has THEN plan.date_range ELSE StrVal(<<"l","a","s","t","_","7","_","d","a","y","s">>))]
    ELSE [fault |-> plan.has # PlanKeys, plan |-> plan]

\* parse_analytics_query(query), llm being what the one completion call does.
\* Both except clauses end in "return _fallback_plan(query)".
parse_analytics_query(query, llm) ==
    IF llm.kind = "value" /\ ~FillDefaults(llm.val).fault
    THEN [plan |-> FillDefaults(llm.val).plan, llm_calls |-> 1, fallback_calls |-> 0]
    ELSE [plan |-> fallback_plan(query), llm_calls |-> 1, fallback_calls |-> 1]

\* parse_seo_query(query).analysis_type: first match wins
parse_seo_query(query) ==
    LET query_lower == Lower(query)
    IN  IF Contains(query_lower, <<"t","i","t","l","e">>) /\ Contains(query_lower, <<"h","t","t","p","s">>)
            THEN "non_https_long_titles"
        ELSE IF Contains(query_lower, <<"t","i","t","l","e">>) THEN "title_analysis"
        ELSE IF Contains(query_lower, <<"m","e","t","a">>) THEN "meta_description_analysis"
        ELSE IF Contains(query_lower, <<"h","t","t","p","s">>) THEN "https_analysis"
        ELSE "general_seo_health"

-----------------------------------------------------------------------------
(* Inputs: the queries, identifiers, model outputs, backend responses and  *)
(* datasets the model draws from.                                          *)

\* the scenario query of the fallback planner
SampleQuery == <<"s","h","o","w"," ","m","e"," ","u","s","e","r"," ","t","r","a","f","f","i","c"," ","b","y"," ","c","o","u","n","t","r","y"," ","l","a","s","t"," ","m","o","n","t","h">>

\* phrases of which queries are built, joined by single spaces
RECURSIVE Phrases(_, _)
Phrases(vocabulary, n) ==
    IF n = 0 THEN {}
    ELSE IF n = 1 THEN vocabulary
    ELSE Phrases(vocabulary, n - 1)
         \cup {q \o <<" ">> \o w : q \in Phrases(vocabulary, n - 1), w \in vocabulary}

\* requests seen by the orchestrator: analytics only, SEO only, both, neither
Vocabulary == {<<"p","a","g","e"," ","v","i","e","w","s">>, <<"s","e","s","s","i","o","n","s">>, <<"T","i","t","l","e">>, <<"h","t","t","p","s">>, <<"h","e","l","l","o">>}

Queries == Phrases(Vocabulary, MaxWords) \cup {<<>>, SampleQuery}

\* propertyId: None, the empty string, a property identifier
PropertyIds == {"None", "", "123456789"}

\* all lists of at most n entries drawn from names
RECURSIVE Lists(_, _)
Lists(names, n) ==
    IF n = 0 THEN {<<>>}
    ELSE Lists(names, n - 1)
         \cup {Append(l, x) : l \in {y \in Lists(names, n - 1) : Len(y) = n - 1}, x \in names}

\* what a decoded model answer can hold: allowed and unknown names, None,
\* a missing key; a date label, None, a missing key
LlmMetrics == {ListVal(l) : l \in Lists({"sessions", "secretMetric"}, MaxPlanList)}
                  \cup {NullVal, AbsentVal}
LlmDimensions == {ListVal(l) : l \in Lists({"country", "secretDimension"}, MaxPlanList)}
                  \cup {NullVal, AbsentVal}
LlmDateRanges == {StrVal(<<"l","a","s","t"," ","w","e","e","k">>), NullVal, AbsentVal}

LlmPlans ==
    {DictPlan(m, d, r) : m \in LlmMetrics, d \in LlmDimensions, r \in LlmDateRanges}
    \cup {NonDictPlan("list", PlanKeys), NonDictPlan("list", {"metrics"}),
          NonDictPlan("str", PlanKeys), NonDictPlan("str", {})}

LlmOutcomes ==
    {LlmOutcome(kind, NoPlan) : kind \in {"raise", "none", "text", "scalar"}}
    \cup {LlmOutcome("value", p) : p \in LlmPlans}

\* what client.run_report does: raises, or returns rows; wide rows carry more
\* values than the plan has names
BackendOutcomes ==
    {[kind |-> "raise", exc |-> e, rows |-> 0, wide |-> FALSE] :
        e \in {"GoogleAPICallError", "ValueError"}}
    \cup {[kind |-> "rows", exc |-> "none", rows |-> n, wide |-> FALSE] : n \in 0..MaxRows}
    \cup {[kind |-> "rows", exc |-> "none", rows |-> n, wide |-> TRUE] : n \in 1..MaxRows}

Columns == {"Address", "Title 1", "Meta Description 1", "Status Code", "Content Type"}

\* _create_sample_data()
SampleData == [source |-> "sample", columns |-> Columns, str_ok |-> TRUE]

\* what pd.read_csv can load: a table lacking one of the columns, or one
\* whose text columns hold no strings (the .str accessor raises)
CsvData ==
    {[source |-> "csv", columns |-> Columns \ missing, str_ok |-> s] :
        missing \in {{}, {"Address"}, {"Title 1"}}, s \in {TRUE}}
    \cup {[source |-> "csv", columns |-> Columns, str_ok |-> FALSE]}

NoData == [source |-> "none", columns |-> {}, str_ok |-> TRUE]

-----------------------------------------------------------------------------
(* Responses.  One record shape for every mapping an agent or the          *)
(* orchestrator returns; a field a mapping does not carry keeps the value  *)
(* it has in NoResp.                                                       *)

NoResp ==
    [kind |-> "none", error |-> "none", has_query |-> FALSE, query |-> <<>>,
     metrics |-> AbsentVal, dimensions |-> AbsentVal, date_range |-> <<>>,
     rows |-> 0, errors |-> <<>>, allowed_metrics |-> {}, allowed_dimensions |-> {},
     possible_reasons |-> 0, suggestions |-> 0, supported_intents |-> 0,
     analysis_type |-> "none", available_columns |-> {"none"}]

NoMerged == [kind |-> "none", query |-> <<>>, insights |-> <<>>, keys |-> {},
             analytics |-> NoResp, seo |-> NoResp]

NoResponses == [keys |-> <<>>, analytics |-> NoResp, seo |-> NoResp]

\* response of _execute_ga4_request, before the reporting call has returned
NoBackendResponse == [kind |-> "none", exc |-> "none", rows |-> 0, wide |-> FALSE]

NoRun == [plan |-> NoPlan, validated |-> NoPlan, executed |-> NoPlan, fault |-> "none",
          response |-> NoBackendResponse]

NotRun == [status |-> "not_run", resp |-> NoResp]
NoAgents == [analytics |-> NotRun, seo |-> NotRun]

NoReq == [query |-> <<>>, propertyId |-> "None"]

NoUnit ==
    [fn |-> "none", exc |-> "none", plan |-> NoPlan, vres |-> [exc |-> "none", errors |-> <<>>],
     query |-> <<>>, llm |-> LlmOutcome("raise", NoPlan),
     pres |-> [plan |-> NoPlan, llm_calls |-> 0, fallback_calls |-> 0],
     label |-> <<>>, range |-> DateRange(<<>>, <<>>), text |-> <<>>,
     rows |-> <<>>, data |-> [pages |-> <<>>, has_status |-> FALSE],
     health |-> [error |-> "none", health_score |-> 0, issues |-> <<>>,
                 issues_found |-> 0, total_pages_analyzed |-> 0],
     titles |-> [error |-> "none",
                 statistics |-> [missing_titles |-> 0, long_titles |-> 0,
                                 short_titles |-> 0, total_pages |-> 0],
                 issues |-> <<>>]]

-----------------------------------------------------------------------------
(* app/agents/ga4_agent.py *)

\* ga4_agent.py imports log_ga4_query, log_agent_call, log_error and
\* log_performance, and binds no name "logger": evaluating logger.warning(...)
\* or logger.info(...) in that module raises NameError.
LoggerDefined == FALSE

\* rows of the mock response: for i in range(7)
DemoRows == 7

\* the band random.randint(lo, hi) draws a metric's value from
MetricBand(metric) ==
    CASE metric = "sessions" -> [lo |-> 50, hi |-> 500]
      [] metric = "totalUsers" -> [lo |-> 40, hi |-> 400]
      [] metric = "screenPageViews" -> [lo |-> 100, hi |-> 800]
      [] OTHER -> [lo |-> 10, hi |-> 100]

\* random.randint(lo, hi) is unseeded: any value of lo..hi can come out.
\* The two ends stand for the band.
RandintOutcomes(band) == {band.lo, band.hi}

\* random.choice(paths): the first and the last path stand for the five
PathOutcomes == {"/", "/blog"}

DimensionValue(kind, day, text) == [kind |-> kind, day |-> day, text |-> text]

\* the values one row can take for the dimension dim; i is the row index of
\* range(7) and now the day datetime.now() falls on
DimensionOutcomes(dim, i, now) ==
    IF dim = "date" THEN {DimensionValue("date", now - (6 - i), "")}
    ELSE IF dim = "pagePath" THEN {DimensionValue("text", 0, p) : p \in PathOutcomes}
    ELSE {DimensionValue("text", 0, "demo_value")}

\* all sequences whose j-th entry is drawn from outcomes[j]
RECURSIVE Draws(_)
Draws(outcomes) ==
    IF Len(outcomes) = 0 THEN {<<>>}
    ELSE {Append(s, x) : s \in Draws(SubSeq(outcomes, 1, Len(outcomes) - 1)),
                         x \in outcomes[Len(outcomes)]}

\* MockRow(row_data, metric_data) for row i
MockRows(plan, i, now) ==
    LET dims == [j \in 1..Len(plan.dimensions.v) |->
                    DimensionOutcomes(plan.dimensions.v[j], i, now)]
        mets == [j \in 1..Len(plan.metrics.v) |->
                    RandintOutcomes(MetricBand(plan.metrics.v[j]))]
    IN  {[dimension_values |-> d, metric_values |-> m] : d \in Draws(dims), m \in Draws(mets)}

\* _get_demo_data(plan), lines 251 to 282: the rows MockResponse() can hold
\* when it is built on day now
get_demo_data(plan, now) ==
    Draws([n \in 1..DemoRows |-> MockRows(plan, n - 1, now)])

\* for comparison: a run with no "except Exception" clause
run_catches_value_error_only(fault) == fault = "ValueError"

\* GA4Agent.run: the clauses "except ValueError" and "except Exception" around
\* the whole body catch every fault raised in it
run_catches(fault) == TRUE

\* SEOAgent.run: "except Exception" around the whole body
seo_run_catches(fault) == TRUE

\* for comparison: a validation envelope without the allowlists
ValidationEnvelope_no_allowlists(query, vres) ==
    [NoResp EXCEPT !.kind = "error", !.error = "Query validation failed",
                   !.has_query = TRUE, !.query = query, !.errors = vres.errors]

\* the mapping returned by "except ValueError"
ValidationEnvelope(query, vres) ==
    [NoResp EXCEPT !.kind = "error", !.error = "Query validation failed",
                   !.has_query = TRUE, !.query = query, !.errors = vres.errors,
                   !.allowed_metrics = ALLOWED_METRICS,
                   !.allowed_dimensions = ALLOWED_DIMENSIONS]

\* the mapping returned by "except Exception"
ExecutionEnvelope(query) ==
    [NoResp EXCEPT !.kind = "error", !.error = "Analytics processing failed",
                   !.has_query = TRUE, !.query = query]

\* the message of a ValueError raised after validation, as the one entry of
\* the envelope's error text
ErrRaised == [kind |-> "message of the fault", names |-> <<>>]

\* GA4Agent.run, the except clause that handles a fault of the given type
\* raised at steps 3 to 5: "except ValueError" comes first, "except Exception"
\* takes the rest
run_except(fault, query) ==
    IF fault = "ValueError"
    THEN ValidationEnvelope(query, [exc |-> "ValueError", errors |-> <<ErrRaised>>])
    ELSE ExecutionEnvelope(query)

\* for comparison: an empty result formatted like any other report
empty_data_response_as_report(plan) ==
    [NoResp EXCEPT !.kind = "report",
                   !.metrics = plan.metrics, !.dimensions = plan.dimensions,
                   !.date_range = get_human_readable_range(parse_date_range(plan.date_range.v)),
                   !.rows = 0]

\* _empty_data_response(plan, property_id)
empty_data_response(plan) ==
    [NoResp EXCEPT !.kind = "no_data",
                   !.metrics = plan.metrics, !.dimensions = plan.dimensions,
                   !.date_range = get_human_readable_range(parse_date_range(plan.date_range.v)),
                   !.rows = 0, !.possible_reasons = 4, !.suggestions = 3]

\* _format_response(response, plan, original_query), for a response of n rows
format_response(n, plan, original_query) ==
    [NoResp EXCEPT !.kind = "report", !.has_query = TRUE, !.query = original_query,
                   !.metrics = plan.metrics, !.dimensions = plan.dimensions,
                   !.date_range = get_human_readable_range(parse_date_range(plan.date_range.v)),
                   !.rows = n]

\* GA4Agent.__init__ under the three states of credentials.json: the fields it
\* leaves, and whether it raises.  Both demo-mode paths log through logger.
GA4Agent_init(c) ==
    IF c = "valid"
    THEN [client |-> "client", credentials_valid |-> TRUE, raised |-> FALSE]
    ELSE [client |-> "None", credentials_valid |-> FALSE, raised |-> ~LoggerDefined]

\* Steps 3 to 5 of GA4Agent.run on a validated plan: _execute_ga4_request,
\* the empty-data check and _format_response.  backend is what run_report
\* does if it is called.  fault names the exception caught, if any.
ExecuteAndFormat(plan, query, valid, cl, backend) ==
    IF ~valid \/ cl = "None"
    THEN \* demo mode: logger.warning comes before _get_demo_data
         IF LoggerDefined
         THEN IF plan.date_range.k # "str"
              THEN \* _format_response calls parse_date_range(None)
                   [fault |-> "AttributeError", backend_calls |-> 0, demo_calls |-> 1,
                    resp |-> run_except("AttributeError", query)]
              ELSE IF parse_date_range_raises(plan.date_range.v)
              THEN [fault |-> "ValueError", backend_calls |-> 0, demo_calls |-> 1,
                    resp |-> run_except("ValueError", query)]
              ELSE [fault |-> "none", backend_calls |-> 0, demo_calls |-> 1,
                    resp |-> format_response(DemoRows, plan, query)]
         ELSE [fault |-> "NameError", backend_calls |-> 0, demo_calls |-> 0,
               resp |-> run_except("NameError", query)]
    ELSE IF plan.date_range.k # "str"
    THEN \* parse_date_range(None): None has no lower()
         [fault |-> "AttributeError", backend_calls |-> 0, demo_calls |-> 0,
          resp |-> run_except("AttributeError", query)]
    ELSE IF parse_date_range_raises(plan.date_range.v)
    THEN \* building the request: int() refuses the digits of the label
         [fault |-> "ValueError", backend_calls |-> 0, demo_calls |-> 0,
          resp |-> run_except("ValueError", query)]
    ELSE IF backend.kind = "raise"
    THEN [fault |-> backend.exc, backend_calls |-> 1, demo_calls |-> 0,
          resp |-> run_except(backend.exc, query)]
    ELSE IF backend.rows = 0
    THEN [fault |-> "none", backend_calls |-> 1, demo_calls |-> 0,
          resp |-> empty_data_response(plan)]
    ELSE IF backend.wide
    THEN \* plan["dimensions"][i] past the end of the list
         [fault |-> "IndexError", backend_calls |-> 1, demo_calls |-> 0,
          resp |-> run_except("IndexError", query)]
    ELSE [fault |-> "none", backend_calls |-> 1, demo_calls |-> 0,
          resp |-> format_response(backend.rows, plan, query)]

-----------------------------------------------------------------------------
(* app/agents/seo_agent.py *)

\* the columns each analysis routine indexes without a guard
RequiredColumns(analysis_type) ==
    CASE analysis_type = "non_https_long_titles" -> {"Address", "Title 1"}
      [] analysis_type = "title_analysis" -> {"Title 1"}
      [] analysis_type = "meta_description_analysis" -> {"Meta Description 1"}
      [] analysis_type = "https_analysis" -> {"Address"}
      [] OTHER -> {"Address", "Title 1", "Meta Description 1"}

\* the error text of each routine's own except clause
RoutineError(analysis_type) ==
    CASE analysis_type = "non_https_long_titles" -> "Required column not found in SEO data"
      [] analysis_type = "title_analysis" -> "Title analysis failed"
      [] analysis_type = "meta_description_analysis" -> "Meta description analysis failed"
      [] analysis_type = "https_analysis" -> "HTTPS analysis failed"
      [] OTHER -> "SEO health check failed"

\* A crawled page: the cells of one row of the dataset.  A text cell is a
\* StrVal, or NullVal for NaN (what pd.read_csv makes of an empty cell).
Page(address, title, meta, status) ==
    [address |-> address, title |-> title, meta |-> meta, status |-> status]

\* Series.str: the accessor raises AttributeError on a column that is not
\* of strings, which is what a column with NaN in every row is
HoldsStrings(pages, col) == \E i \in 1..Len(pages) : pages[i][col].k = "str"

\* len(self.df[mask]): the number of rows for which the boolean column mask holds
CountRows(mask) == Cardinality({i \in DOMAIN mask : mask[i]})

\* isna() | (== "")
IsMissing(cell) == cell.k = "null" \/ cell = StrVal(<<>>)

\* self.df[mask]: the rows for which the boolean column mask holds, in order
RowsWhere(pages, mask) ==
    LET idx == SelectSeq([i \in DOMAIN pages |-> i], LAMBDA i : mask[i])
    IN  [k \in DOMAIN idx |-> pages[idx[k]]]

\* DataFrame.head(n)
head(rows, n) == SubSeq(rows, 1, IF Len(rows) < n THEN Len(rows) ELSE n)

\* the example built for a row without a title
MissingTitleIssue(p) ==
    [url |-> p.address, issue |-> "Missing title tag",
     recommendation |-> "Add descriptive title tag"]

\* the example built for a row whose title is over the threshold
LongTitleIssue(p) ==
    [url |-> p.address, issue |-> "Title exceeds threshold",
     recommendation |-> "Shorten title while maintaining descriptiveness"]

NoTitleStatistics ==
    [missing_titles |-> 0, long_titles |-> 0, short_titles |-> 0, total_pages |-> 0]

\* analyze_titles(length_threshold) on the dataset d
analyze_titles(d, length_threshold) ==
    LET pages == d.pages
        missing_titles == RowsWhere(pages, [i \in DOMAIN pages |-> IsMissing(pages[i].title)])
        long_titles == RowsWhere(pages, [i \in DOMAIN pages |->
                           pages[i].title.k = "str" /\ Len(pages[i].title.v) > length_threshold])
        short_titles == RowsWhere(pages, [i \in DOMAIN pages |->
                           pages[i].title.k = "str" /\ Len(pages[i].title.v) < 30])
        examples(rows, issue(_)) == [k \in DOMAIN head(rows, 5) |-> issue(rows[k])]
    IN  IF ~HoldsStrings(pages, "title")
        THEN \* self.df[title_col].str raises; caught by "except Exception"
             [error |-> "Title analysis failed", statistics |-> NoTitleStatistics,
              issues |-> <<>>]
        ELSE [error |-> "none",
              statistics |-> [missing_titles |-> Len(missing_titles),
                              long_titles |-> Len(long_titles),
                              short_titles |-> Len(short_titles),
                              total_pages |-> Len(pages)],
              issues |-> examples(missing_titles, MissingTitleIssue)
                         \o examples(long_titles, LongTitleIssue)]

\* for comparison: a health check that takes 60 points for pages not on HTTPS
general_seo_health_heavy_https(d) ==
    LET pages == d.pages
        http_urls == CountRows([i \in DOMAIN pages |->
                        pages[i].address.k = "str"
                        /\ StartsWithAt(pages[i].address.v, 1, <<"h","t","t","p",":","/","/">>)])
        missing_titles == CountRows([i \in DOMAIN pages |-> IsMissing(pages[i].title)])
        long_titles == CountRows([i \in DOMAIN pages |->
                        pages[i].title.k = "str" /\ Len(pages[i].title.v) > 60])
        missing_meta == CountRows([i \in DOMAIN pages |-> IsMissing(pages[i].meta)])
        error_pages == IF d.has_status
                       THEN CountRows([i \in DOMAIN pages |-> pages[i].status # 200]) ELSE 0
        s1 == IF http_urls > 0 THEN 100 - 60 ELSE 100
        s2 == IF missing_titles > 0 THEN s1 - 15 ELSE s1
        s3 == IF long_titles > 0 THEN s2 - 10 ELSE s2
        s4 == IF missing_meta > 0 THEN s3 - 10 ELSE s3
        s5 == IF error_pages > 0 THEN s4 - 15 ELSE s4
        issues == (IF http_urls > 0 THEN <<"pages not using HTTPS">> ELSE <<>>)
                  \o (IF missing_titles > 0 THEN <<"pages missing titles">> ELSE <<>>)
                  \o (IF long_titles > 0 THEN <<"pages have titles over 60 characters">> ELSE <<>>)
                  \o (IF missing_meta > 0 THEN <<"pages missing meta descriptions">> ELSE <<>>)
                  \o (IF error_pages > 0 THEN <<"pages returning error status codes">> ELSE <<>>)
    IN  IF ~HoldsStrings(pages, "address") \/ ~HoldsStrings(pages, "title")
        THEN \* self.df[...].str raises; caught by "except Exception"
             [error |-> "SEO health check failed", health_score |-> 0 - 1, issues |-> <<>>,
              issues_found |-> 0, total_pages_analyzed |-> 0]
        ELSE [error |-> "none", health_score |-> IF s5 < 0 THEN 0 ELSE s5, issues |-> issues,
              issues_found |-> Len(issues), total_pages_analyzed |-> Len(pages)]

\* general_seo_health() on the dataset d: d.pages the rows, d.has_status
\* whether the table has a "Status Code" column
general_seo_health(d) ==
    LET pages == d.pages
        http_urls == CountRows([i \in DOMAIN pages |->
                        pages[i].address.k = "str"
                        /\ StartsWithAt(pages[i].address.v, 1, <<"h","t","t","p",":","/","/">>)])
        missing_titles == CountRows([i \in DOMAIN pages |-> IsMissing(pages[i].title)])
        long_titles == CountRows([i \in DOMAIN pages |->
                        pages[i].title.k = "str" /\ Len(pages[i].title.v) > 60])
        missing_meta == CountRows([i \in DOMAIN pages |-> IsMissing(pages[i].meta)])
        error_pages == IF d.has_status
                       THEN CountRows([i \in DOMAIN pages |-> pages[i].status # 200]) ELSE 0
        s1 == IF http_urls > 0 THEN 100 - 20 ELSE 100
        s2 == IF missing_titles > 0 THEN s1 - 15 ELSE s1
        s3 == IF long_titles > 0 THEN s2 - 10 ELSE s2
        s4 == IF missing_meta > 0 THEN s3 - 10 ELSE s3
        s5 == IF error_pages > 0 THEN s4 - 15 ELSE s4
        issues == (IF http_urls > 0 THEN <<"pages not using HTTPS">> ELSE <<>>)
                  \o (IF missing_titles > 0 THEN <<"pages missing titles">> ELSE <<>>)
                  \o (IF long_titles > 0 THEN <<"pages have titles over 60 characters">> ELSE <<>>)
                  \o (IF missing_meta > 0 THEN <<"pages missing meta descriptions">> ELSE <<>>)
                  \o (IF error_pages > 0 THEN <<"pages returning error status codes">> ELSE <<>>)
    IN  IF ~HoldsStrings(pages, "address") \/ ~HoldsStrings(pages, "title")
        THEN \* self.df[...].str raises; caught by "except Exception"
             [error |-> "SEO health check failed", health_score |-> 0 - 1, issues |-> <<>>,
              issues_found |-> 0, total_pages_analyzed |-> 0]
        ELSE [error |-> "none", health_score |-> IF s5 < 0 THEN 0 ELSE s5, issues |-> issues,
              issues_found |-> Len(issues), total_pages_analyzed |-> Len(pages)]

\* SEOAgent.run(query) on the loaded dataset d
SEOAgent_run(query, d) ==
    LET analysis_type == parse_seo_query(query)
        missing == RequiredColumns(analysis_type) \ d.columns
        tagged(r) == [r EXCEPT !.has_query = TRUE, !.query = query,
                               !.analysis_type = analysis_type]
    IN  IF missing # {}
        THEN \* KeyError, caught by the routine
             tagged([NoResp EXCEPT !.kind = "error", !.error = RoutineError(analysis_type),
                        !.available_columns =
                            IF analysis_type = "non_https_long_titles"
                            THEN d.columns ELSE {"none"}])
        ELSE IF ~d.str_ok
        THEN IF analysis_type = "non_https_long_titles"
             THEN \* not a KeyError: caught by run's own except clause
                  [NoResp EXCEPT !.kind = "error", !.error = "SEO analysis failed",
                                 !.has_query = TRUE, !.query = query]
             ELSE tagged([NoResp EXCEPT !.kind = "error",
                                        !.error = RoutineError(analysis_type)])
        ELSE tagged([NoResp EXCEPT !.kind = "report"])

-----------------------------------------------------------------------------
(* app/orchestrator.py *)

ga4_keywords ==
    <<<<"p","a","g","e"," ","v","i","e","w">>, <<"p","a","g","e","v","i","e","w">>, <<"u","s","e","r","s">>, <<"s","e","s","s","i","o","n","s">>, <<"t","r","a","f","f","i","c">>, <<"v","i","e","w","s">>,
      <<"b","o","u","n","c","e"," ","r","a","t","e">>, <<"c","o","n","v","e","r","s","i","o","n">>, <<"g","o","a","l">>, <<"e","v","e","n","t">>, <<"a","u","d","i","e","n","c","e">>,
      <<"a","c","q","u","i","s","i","t","i","o","n">>, <<"b","e","h","a","v","i","o","r">>, <<"d","e","m","o","g","r","a","p","h","i","c">>, <<"g","e","o","g","r","a","p","h","i","c">>,
      <<"d","e","v","i","c","e">>, <<"b","r","o","w","s","e","r">>, <<"s","o","u","r","c","e">>, <<"m","e","d","i","u","m">>, <<"c","a","m","p","a","i","g","n">>>>

seo_keywords ==
    <<<<"t","i","t","l","e">>, <<"m","e","t","a">>, <<"i","n","d","e","x">>, <<"h","t","t","p","s">>, <<"s","e","o">>, <<"c","r","a","w","l">>,
      <<"h","e","a","d","i","n","g">>, <<"a","l","t"," ","t","e","x","t">>, <<"s","c","h","e","m","a">>, <<"s","i","t","e","m","a","p">>, <<"r","o","b","o","t">>,
      <<"c","a","n","o","n","i","c","a","l">>, <<"r","e","d","i","r","e","c","t">>, <<"b","r","o","k","e","n"," ","l","i","n","k">>, <<"d","u","p","l","i","c","a","t","e">>,
      <<"p","a","g","e"," ","s","p","e","e","d">>, <<"m","o","b","i","l","e"," ","f","r","i","e","n","d","l","y">>, <<"s","t","r","u","c","t","u","r","e","d"," ","d","a","t","a">>>>

detect_ga4_intent(query) == AnyIn(query, ga4_keywords)

detect_seo_intent(query) == AnyIn(query, seo_keywords)

\* for comparison: an identifier test that lets the empty string through
NoPropertyId_none_only(r) == r.propertyId = "None"

\* not req.propertyId
NoPropertyId(r) == r.propertyId \in {"None", ""}

MissingIdentifierError(query) ==
    [NoResp EXCEPT !.kind = "error",
                   !.error = "propertyId is required for GA4 analytics queries",
                   !.has_query = TRUE, !.query = query]

NoIntentError(query) ==
    [NoResp EXCEPT !.kind = "error", !.error = "Could not determine query intent",
                   !.has_query = TRUE, !.query = query, !.supported_intents = 2]

\* the entry handle stores when an agent's run raises
AgentFailed(domain) ==
    [NoResp EXCEPT !.kind = "error",
                   !.error = IF domain = "analytics" THEN "Analytics processing failed"
                             ELSE "SEO processing failed"]

\* responses[domain] = resp
Store(resps, domain, resp) ==
    [resps EXCEPT !.keys = Append(@, domain), ![domain] = resp]

\* _generate_combined_insights(responses)
generate_combined_insights(resps) ==
    IF InList("analytics", resps.keys) /\ InList("seo", resps.keys)
    THEN <<"Cross-referencing traffic data with SEO health indicators">>
         \o (IF resps.analytics.error = "none" /\ resps.seo.error = "none"
             THEN <<"Both analytics and SEO data available for comprehensive analysis">>
             ELSE <<>>)
    ELSE <<>>

\* _merge_responses(responses, query)
merge_responses(resps, query) ==
    [kind |-> "merged", query |-> query,
     insights |-> generate_combined_insights(resps),
     keys |-> {resps.keys[i] : i \in 1..Len(resps.keys)},
     analytics |-> resps.analytics, seo |-> resps.seo]

Single(resp) == [kind |-> "single", resp |-> resp, merged |-> NoMerged]
Merged(m) == [kind |-> "merged", resp |-> NoResp, merged |-> m]
NoResult == [kind |-> "none", resp |-> NoResp, merged |-> NoMerged]

\* for comparison: a return that never merges
handle_return_first(resps, query) ==
    IF Len(resps.keys) = 0 THEN Single(NoIntentError(query))
    ELSE Single(resps[resps.keys[1]])

\* for comparison: a return that wraps a lone response too
handle_return_always_merged(resps, query) ==
    IF Len(resps.keys) = 0 THEN Single(NoIntentError(query))
    ELSE Merged(merge_responses(resps, query))

\* lines 67 to 82 of handle: what it returns for the collected responses
handle_return(resps, query) ==
    IF Len(resps.keys) = 0 THEN Single(NoIntentError(query))
    ELSE IF Len(resps.keys) > 1 THEN Merged(merge_responses(resps, query))
    ELSE Single(resps[resps.keys[1]])

-----------------------------------------------------------------------------
(* The state machine: construction of the module-level Orchestrator, then  *)
(* requests handled one at a time (handle is synchronous).                 *)

Init ==
    /\ cred \in {"absent", "invalid", "valid"}
    /\ orch = "none"
    /\ credentials_valid = FALSE
    /\ client = "None"
    /\ df = NoData
    /\ pc = "idle"
    /\ req = NoReq
    /\ needs = [ga4 |-> FALSE, seo |-> FALSE]
    /\ responses = NoResponses
    /\ result = NoResult
    /\ run = NoRun
    /\ agents = NoAgents
    /\ calls = <<>>
    /\ unit = NoUnit

\* Orchestrator.__init__: GA4Agent(), then SEOAgent() and its _load_data
Construct ==
    /\ orch = "none"
    /\ LET g == GA4Agent_init(cred)
       IN  /\ client' = g.client
           /\ credentials_valid' = g.credentials_valid
           /\ IF g.raised
              THEN orch' = "failed" /\ df' = df
              ELSE /\ orch' = "ok"
                   /\ df' \in CsvData \cup {SampleData}
    /\ UNCHANGED <<cred, pc, req, needs, responses, result, run, agents, calls, unit>>

\* handle, lines 28 to 44: intent detection and the identifier check
Handle ==
    /\ orch = "ok"
    /\ pc = "idle"
    /\ \E query \in Queries, propertyId \in PropertyIds :
       LET r == [query |-> query, propertyId |-> propertyId]
           n == [ga4 |-> detect_ga4_intent(Lower(query)),
                 seo |-> detect_seo_intent(Lower(query))]
       IN  /\ req' = r
           /\ needs' = n
           /\ IF n.ga4 /\ NoPropertyId(r)
              THEN /\ result' = Single(MissingIdentifierError(query))
                   /\ pc' = "done"
              ELSE /\ result' = NoResult
                   /\ pc' = IF n.ga4 THEN "ga4_parse"
                            ELSE IF n.seo THEN "seo" ELSE "finish"
    /\ responses' = NoResponses
    /\ run' = NoRun
    /\ agents' = NoAgents
    /\ calls' = <<>>
    /\ UNCHANGED <<cred, orch, credentials_valid, client, df, unit>>

\* the call entries a parse leaves: one per completion call, one per fallback
ParseCalls(p) ==
    [i \in 1..(p.llm_calls + p.fallback_calls) |->
        IF i <= p.llm_calls THEN "litellm.completion" ELSE "_fallback_plan"]

\* for comparison: a handler that skips the SEO agent after an analytics fault
AgentDone_abort_on_error(domain, resp, escaped) ==
    /\ responses' = Store(responses, domain, IF escaped THEN AgentFailed(domain) ELSE resp)
    /\ agents' = [agents EXCEPT ![domain] =
                     IF escaped THEN [status |-> "raised", resp |-> NoResp]
                     ELSE [status |-> "returned", resp |-> resp]]
    /\ pc' = IF domain = "analytics" /\ needs.seo /\ ~escaped /\ resp.error = "none"
             THEN "seo" ELSE "finish"

\* handle stores the agent's response, or its own entry when run raised
\* (escaped: a fault that no except clause of run catches)
AgentDone(domain, resp, escaped) ==
    /\ responses' = Store(responses, domain, IF escaped THEN AgentFailed(domain) ELSE resp)
    /\ agents' = [agents EXCEPT ![domain] =
                     IF escaped THEN [status |-> "raised", resp |-> NoResp]
                     ELSE [status |-> "returned", resp |-> resp]]
    /\ pc' = IF domain = "analytics" /\ needs.seo THEN "seo" ELSE "finish"

\* GA4Agent.run, step 1: parse_analytics_query
GA4Parse ==
    /\ pc = "ga4_parse"
    /\ \E llm \in LlmOutcomes :
       LET p == parse_analytics_query(req.query, llm)
       IN  /\ calls' = calls \o <<"ga4_agent.run">> \o ParseCalls(p)
           /\ run' = [run EXCEPT !.plan = p.plan]
           /\ pc' = "ga4_validate"
           /\ UNCHANGED <<responses, agents>>
    /\ UNCHANGED <<cred, orch, credentials_valid, client, df, req, needs, result, unit>>

\* for comparison: a run that ignores the outcome of validate_plan
run_after_validate_skip(vres) ==
    "execute"

\* what GA4Agent.run does with the outcome of validate_plan:
\* "execute", or the envelope of the except clause that catches it
run_after_validate(vres) ==
    IF vres.exc = "none" THEN "execute"
    ELSE IF vres.exc = "ValueError" THEN "validation" ELSE "execution"

\* GA4Agent.run, step 2: validate_plan(plan)
GA4Validate ==
    /\ pc = "ga4_validate"
    /\ calls' = Append(calls, "validate_plan")
    /\ LET vres == validate_plan(run.plan)
           next == run_after_validate(vres)
           env == IF next = "validation" THEN ValidationEnvelope(req.query, vres)
                  ELSE ExecutionEnvelope(req.query)
           escaped == ~run_catches(vres.exc)
       IN  IF next = "execute"
           THEN /\ run' = [run EXCEPT !.validated = IF vres.exc = "none" THEN run.plan ELSE NoPlan]
                /\ pc' = "ga4_execute"
                /\ UNCHANGED <<responses, agents>>
           ELSE /\ run' = [run EXCEPT !.fault = vres.exc]
                /\ AgentDone("analytics", env, escaped)
    /\ UNCHANGED <<cred, orch, credentials_valid, client, df, req, needs, result, unit>>

\* GA4Agent.run, steps 3 to 5
GA4Execute ==
    /\ pc = "ga4_execute"
    /\ \E backend \in BackendOutcomes :
       LET x == ExecuteAndFormat(run.plan, req.query, credentials_valid, client, backend)
           escaped == x.fault # "none" /\ ~run_catches(x.fault)
       IN  /\ calls' = calls \o <<"_execute_ga4_request">>
                       \o (IF x.demo_calls = 1 THEN <<"_get_demo_data">> ELSE <<>>)
                       \o (IF x.backend_calls = 1 THEN <<"client.run_report">> ELSE <<>>)
           /\ run' = [run EXCEPT !.executed = run.plan, !.fault = x.fault,
                                 !.response = IF x.backend_calls = 1 THEN backend
                                              ELSE NoBackendResponse]
           /\ AgentDone("analytics", x.resp, escaped)
    /\ UNCHANGED <<cred, orch, credentials_valid, client, df, req, needs, result, unit>>

\* handle, lines 58 to 65: SEOAgent.run and the except clause around it
SEORun ==
    /\ pc = "seo"
    /\ LET resp == SEOAgent_run(req.query, df)
           escaped == resp.error = "SEO analysis failed" /\ ~seo_run_catches("AttributeError")
       IN  /\ calls' = Append(calls, "seo_agent.run")
           /\ AgentDone("seo", resp, escaped)
    /\ UNCHANGED <<cred, orch, credentials_valid, client, df, req, needs, result,
                   run, unit>>

\* handle, lines 67 to 82
Finish ==
    /\ pc = "finish"
    /\ result' = handle_return(responses, req.query)
    /\ pc' = "done"
    /\ UNCHANGED <<cred, orch, credentials_valid, client, df, req, needs, responses,
                   run, agents, calls, unit>>

\* for comparison: a handler that keeps the last plan and call log between requests
Return_keeps_run ==
    /\ pc = "done"
    /\ pc' = "idle"
    /\ req' = NoReq
    /\ needs' = [ga4 |-> FALSE, seo |-> FALSE]
    /\ responses' = NoResponses
    /\ result' = NoResult
    /\ agents' = NoAgents
    /\ UNCHANGED <<cred, orch, credentials_valid, client, df, unit, run, calls>>

\* the response is sent; the locals of the request are gone
Return ==
    /\ pc = "done"
    /\ pc' = "idle"
    /\ req' = NoReq
    /\ needs' = [ga4 |-> FALSE, seo |-> FALSE]
    /\ responses' = NoResponses
    /\ result' = NoResult
    /\ run' = NoRun
    /\ agents' = NoAgents
    /\ calls' = <<>>
    /\ UNCHANGED <<cred, orch, credentials_valid, client, df, unit>>

Next ==
    \/ Construct
    \/ Handle
    \/ GA4Parse
    \/ GA4Validate
    \/ GA4Execute
    \/ SEORun
    \/ Finish
    \/ Return

Spec == Init /\ [][Next]_vars

-----------------------------------------------------------------------------
(* Direct calls of the pure functions, on inputs drawn from bounded sets:   *)
(* each behaviour makes one call and keeps its arguments and its result.   *)

UnitMetricNames == {"sessions", "bounceRate", "secretMetric", "otherMetric"}
UnitDimensionNames == {"date", "country", "secretDimension", "otherDimension"}

UnitMetrics == {ListVal(l) : l \in Lists(UnitMetricNames, MaxList)}
                   \cup {NullVal, AbsentVal, StrVal(<<>>), StrVal(<<"a","b">>)}
UnitDimensions == {ListVal(l) : l \in Lists(UnitDimensionNames, MaxList)}
                   \cup {NullVal, AbsentVal, StrVal(<<>>), StrVal(<<"a","b">>)}
UnitDateRanges == {StrVal(<<"l","a","s","t","_","7","_","d","a","y","s">>), NullVal, AbsentVal}

UnitPlans == {DictPlan(m, d, r) : m \in UnitMetrics, d \in UnitDimensions, r \in UnitDateRanges}

UnitVocabulary ==
    {<<"u","s","e","r","s">>, <<"V","i","s","i","t","o","r">>, <<"p","a","g","e"," ","v","i","e","w","s">>, <<"v","i","e","w","s">>, <<"b","o","u","n","c","e">>, <<"p","a","g","e">>, <<"U","R","L">>,
     <<"c","o","u","n","t","r","y">>, <<"m","o","b","i","l","e">>, <<"y","e","s","t","e","r","d","a","y">>, <<"m","o","n","t","h">>, <<"w","e","e","k">>, <<"1","4"," ","d","a","y","s">>, <<"h","e","l","l","o">>}

UnitQueries == Phrases(UnitVocabulary, MaxWords) \cup {<<>>, SampleQuery}

LabelVocabulary ==
    {<<"l","a","s","t">>, <<"p","a","s","t">>, <<"L","a","s","t">>, <<"w","e","e","k">>, <<"m","o","n","t","h">>, <<"l","a","s","t","_","7","_","d","a","y","s">>, <<"p","a","s","t","_","7","_","d","a","y","s">>,
     <<"7">>, <<"5">>, <<"3">>, <<"2">>, <<"d","a","y","s">>, <<"d","a","y">>, <<"w","e","e","k","s">>, <<"m","o","n","t","h","s">>, <<"5","d","a","y","s">>,
     <<"y","e","s","t","e","r","d","a","y">>, <<"t","o","d","a","y">>, <<"s","o","o","n">>}

\* a number of one digit more than int() converts, followed by a unit
LongNumberLabel == [i \in 1..(INT_MAX_STR_DIGITS + 1) |-> "9"] \o <<"d","a","y","s">>

UnitLabels == Phrases(LabelVocabulary, MaxWords) \cup {<<>>, LongNumberLabel}

\* validate_plan(plan)
UnitValidate ==
    /\ unit.fn = "none"
    /\ \E plan \in UnitPlans :
           unit' = [NoUnit EXCEPT !.fn = "validate_plan", !.plan = plan,
                                   !.vres = validate_plan(plan)]
    /\ UNCHANGED <<cred, orch, credentials_valid, client, df, pc, req, needs, responses,
                   result, run, agents, calls>>

\* _fallback_plan(query)
UnitFallback ==
    /\ unit.fn = "none"
    /\ \E query \in UnitQueries :
           unit' = [NoUnit EXCEPT !.fn = "_fallback_plan", !.query = query,
                                   !.plan = fallback_plan(query)]
    /\ UNCHANGED <<cred, orch, credentials_valid, client, df, pc, req, needs, responses,
                   result, run, agents, calls>>

\* parse_analytics_query(query), the completion call doing llm
UnitParse ==
    /\ unit.fn = "none"
    /\ \E query \in Queries, llm \in LlmOutcomes :
           unit' = [NoUnit EXCEPT !.fn = "parse_analytics_query", !.query = query,
                                   !.llm = llm, !.pres = parse_analytics_query(query, llm)]
    /\ UNCHANGED <<cred, orch, credentials_valid, client, df, pc, req, needs, responses,
                   result, run, agents, calls>>

\* parse_date_range(label), then get_human_readable_range of its result
UnitResolve ==
    /\ unit.fn = "none"
    /\ \E label \in UnitLabels :
           unit' = [NoUnit EXCEPT !.fn = "parse_date_range", !.label = label,
                                   !.exc = IF parse_date_range_raises(label)
                                           THEN "ValueError" ELSE "none",
                                   !.range = parse_date_range(label),
                                   !.text = IF parse_date_range_raises(label) THEN <<>>
                                            ELSE get_human_readable_range(
                                                     parse_date_range(label))]
    /\ UNCHANGED <<cred, orch, credentials_valid, client, df, pc, req, needs, responses,
                   result, run, agents, calls>>

\* plans that validate, handed to _get_demo_data
DemoPlans ==
    {DictPlan(ListVal(<<m>>), ListVal(<<d>>), StrVal(<<"l","a","s","t","_","7","_","d","a","y","s">>)) :
        m \in {"sessions", "bounceRate"}, d \in {"date", "country"}}

\* days on which the agent runs (datetime.now()), as day numbers
DemoDays == {10, 11}

\* _get_demo_data(plan): a first call
UnitDemo ==
    /\ unit.fn = "none"
    /\ \E plan \in DemoPlans, now \in DemoDays :
       \E rows \in get_demo_data(plan, now) :
           unit' = [NoUnit EXCEPT !.fn = "_get_demo_data", !.plan = plan, !.rows = rows]
    /\ UNCHANGED <<cred, orch, credentials_valid, client, df, pc, req, needs, responses,
                   result, run, agents, calls>>

\* _get_demo_data(plan): another call on the same plan
UnitDemoAgain ==
    /\ unit.fn = "_get_demo_data"
    /\ \E now \in DemoDays :
       \E rows \in get_demo_data(unit.plan, now) :
           unit' = [unit EXCEPT !.rows = rows]
    /\ UNCHANGED <<cred, orch, credentials_valid, client, df, pc, req, needs, responses,
                   result, run, agents, calls>>

\* titles of 60 and of 61 characters, on either side of the threshold
TitleOfLength(n) == StrVal([i \in 1..n |-> "x"])

UnitPages ==
    {Page(a, t, m, s) :
        a \in {StrVal(<<"h","t","t","p",":","/","/","a">>), StrVal(<<"h","t","t","p","s",":","/","/","a">>)},
        t \in {NullVal, StrVal(<<>>), TitleOfLength(60), TitleOfLength(61)},
        m \in {NullVal, StrVal(<<"m">>)},
        s \in {200, 404}}

CleanPage == Page(StrVal(<<"h","t","t","p","s",":","/","/","a">>), TitleOfLength(60), StrVal(<<"m">>), 200)

\* the scenario: 5 rows, one not on https, one without a title
ScenarioPages ==
    <<Page(StrVal(<<"h","t","t","p",":","/","/","a">>), TitleOfLength(60), StrVal(<<"m">>), 200),
      Page(StrVal(<<"h","t","t","p","s",":","/","/","a">>), NullVal, StrVal(<<"m">>), 200),
      CleanPage, CleanPage, CleanPage>>

UnitDatasets ==
    {[pages |-> p, has_status |-> h] :
        p \in (Lists(UnitPages, MaxPages) \ {<<>>}) \cup {ScenarioPages}, h \in BOOLEAN}

\* general_seo_health()
UnitHealth ==
    /\ unit.fn = "none"
    /\ \E d \in UnitDatasets :
           unit' = [NoUnit EXCEPT !.fn = "general_seo_health", !.data = d,
                                   !.health = general_seo_health(d)]
    /\ UNCHANGED <<cred, orch, credentials_valid, client, df, pc, req, needs, responses,
                   result, run, agents, calls>>

\* pages for the title analysis: no title, an empty one, and titles of 29, 30
\* and 61 characters
TitlePages ==
    {Page(StrVal(<<"h","t","t","p","s",":","/","/","a">>), t, StrVal(<<"m">>), 200) :
        t \in {NullVal, StrVal(<<>>), TitleOfLength(29), TitleOfLength(30), TitleOfLength(61)}}

\* six rows with an empty title: more rows than examples are taken
SixUntitledPages == [i \in 1..6 |-> Page(StrVal(<<"h","t","t","p","s",":","/","/","a">>), StrVal(<<>>), StrVal(<<"m">>), 200)]

TitleDatasets ==
    {[pages |-> p, has_status |-> TRUE] :
        p \in (Lists(TitlePages, MaxPages) \ {<<>>}) \cup {SixUntitledPages}}

\* analyze_titles(), with the threshold parse_seo_query passes
UnitTitles ==
    /\ unit.fn = "none"
    /\ \E d \in TitleDatasets :
           unit' = [NoUnit EXCEPT !.fn = "analyze_titles", !.data = d,
                                   !.titles = analyze_titles(d, 60)]
    /\ UNCHANGED <<cred, orch, credentials_valid, client, df, pc, req, needs, responses,
                   result, run, agents, calls>>

NextUnit ==
    \/ UnitValidate
    \/ UnitFallback
    \/ UnitParse
    \/ UnitResolve
    \/ UnitDemo
    \/ UnitDemoAgain
    \/ UnitHealth
    \/ UnitTitles

\* the pure functions read nothing of the orchestrator: one initial state
InitUnit == Init /\ cred = "valid"

SpecUnit == InitUnit /\ [][NextUnit]_vars

-----------------------------------------------------------------------------
(* Properties *)

Count(seq, x) == Cardinality({i \in 1..Len(seq) : seq[i] = x})

\* entering _execute_ga4_request, the live reporting call, the synthetic data
ExecutionCalls == {"_execute_ga4_request", "client.run_report", "_get_demo_data"}

Executed == \E i \in 1..Len(calls) : calls[i] \in ExecutionCalls

\* every metric and dimension of a dict plan is allowlisted, metrics is
\* non-empty and a date range is present
WithinAllowlists(plan) ==
    /\ plan.k = "obj"
    /\ plan.metrics.k \in {"list", "str"} /\ Len(plan.metrics.v) > 0
    /\ \A i \in 1..Len(plan.metrics.v) : plan.metrics.v[i] \in ALLOWED_METRICS
    /\ plan.dimensions.k \in {"list", "str"}
    /\ \A i \in 1..Len(plan.dimensions.v) : plan.dimensions.v[i] \in ALLOWED_DIMENSIONS
    /\ "date_range" \in plan.has

\* C1: in GA4Agent.run the backend step (_execute_ga4_request, and the
\* reporting call or demo data inside it) comes only after validate_plan was
\* called on the plan and accepted it, the executed plan being that same
\* plan with every name allowlisted; once validate_plan has rejected the
\* plan, the request makes no backend step.
C1_ExecuteOnlyAfterAccept ==
    /\ \A i \in 1..Len(calls) :
          calls[i] \in ExecutionCalls => \E j \in 1..(i - 1) : calls[j] = "validate_plan"
    /\ Executed => /\ run.executed = run.plan
                   /\ run.validated = run.plan
                   /\ validate_plan(run.plan).exc = "none"
                   /\ WithinAllowlists(run.executed)
    /\ (InList("validate_plan", calls) /\ validate_plan(run.plan).exc # "none") => ~Executed

\* a plan decoded from the model's answer (no fallback) reached the reporting call
C1_Witness ==
    /\ InList("client.run_report", calls)
    /\ ~InList("_fallback_plan", calls)
    /\ run.executed.metrics = ListVal(<<"sessions">>)

\* the four checks of the validator, stated on the plan alone; an entry
\* check cannot hold of a value that has no entries to iterate (None)
MetricsAllowed(plan) ==
    "metrics" \in plan.has =>
        /\ plan.metrics.k \in {"list", "str"}
        /\ \A i \in 1..Len(plan.metrics.v) : plan.metrics.v[i] \in ALLOWED_METRICS
DimensionsAllowed(plan) ==
    "dimensions" \in plan.has =>
        /\ plan.dimensions.k \in {"list", "str"}
        /\ \A i \in 1..Len(plan.dimensions.v) : plan.dimensions.v[i] \in ALLOWED_DIMENSIONS
MetricsNonEmpty(plan) ==
    "metrics" \in plan.has /\ plan.metrics.k \in {"list", "str"} /\ Len(plan.metrics.v) > 0
DateRangePresent(plan) == "date_range" \in plan.has

\* C2: validate_plan accepts a plan exactly when every metric is allowlisted,
\* every dimension is allowlisted, metrics is present and non-empty and
\* date_range is present; the compatibility mapping plays no part.
C2_AcceptIffFourChecks ==
    unit.fn = "validate_plan" =>
        ((unit.vres.exc = "none") <=>
            /\ MetricsAllowed(unit.plan)
            /\ DimensionsAllowed(unit.plan)
            /\ MetricsNonEmpty(unit.plan)
            /\ DateRangePresent(unit.plan))

\* an allowed metric with an allowed dimension the mapping does not list for it
C2_Witness ==
    /\ unit.fn = "validate_plan"
    /\ unit.vres.exc = "none"
    /\ unit.plan.metrics = ListVal(<<"bounceRate">>)
    /\ unit.plan.dimensions = ListVal(<<"country">>)
    /\ ~InList("country", COMPATIBLE_COMBINATIONS["bounceRate"])

Outside(entries, allowed) == SelectSeq(entries, LAMBDA x : x \notin allowed)

ErrorsOfKind(errors, kind) == SelectSeq(errors, LAMBDA e : e.kind = kind)

\* C3: a rejection is one ValueError whose message lists, under "Invalid
\* metrics", exactly the entries of plan.metrics outside the allowlist (all
\* of them, in order) and, under "Invalid dimensions", exactly the entries of
\* plan.dimensions outside theirs; a plan of iterable fields with an unknown
\* metric or dimension is always rejected that way.
C3_AllViolationsListed ==
    unit.fn = "validate_plan" =>
        LET plan == unit.plan
            badM == Outside(plan.metrics.v, ALLOWED_METRICS)
            badD == Outside(plan.dimensions.v, ALLOWED_DIMENSIONS)
            typed == plan.metrics.k # "null" /\ plan.dimensions.k # "null"
        IN  /\ (typed /\ (Len(badM) > 0 \/ Len(badD) > 0)) => unit.vres.exc = "ValueError"
            /\ unit.vres.exc = "ValueError" =>
                  /\ ErrorsOfKind(unit.vres.errors, "Invalid metrics")
                        = IF Len(badM) > 0 THEN <<ErrInvalidMetrics(badM)>> ELSE <<>>
                  /\ ErrorsOfKind(unit.vres.errors, "Invalid dimensions")
                        = IF Len(badD) > 0 THEN <<ErrInvalidDimensions(badD)>> ELSE <<>>

\* two unknown metrics and an unknown dimension, in one rejection
C3_Witness ==
    /\ unit.fn = "validate_plan"
    /\ unit.vres.exc = "ValueError"
    /\ unit.plan.metrics = ListVal(<<"secretMetric", "otherMetric">>)
    /\ unit.plan.dimensions = ListVal(<<"date", "secretDimension">>)
    /\ Len(unit.vres.errors) = 2

GA4Intent == detect_ga4_intent(Lower(req.query))
SEOIntent == detect_seo_intent(Lower(req.query))
HasIdentifier == req.propertyId \notin {"None", ""}

\* C4: a request whose query fires the analytics intent and carries no
\* property identifier (None or empty) is answered at once with the
\* missing-identifier error, and no agent is invoked for it.
C4_MissingIdentifier ==
    (GA4Intent /\ ~HasIdentifier) =>
        /\ pc = "done"
        /\ result = Single(MissingIdentifierError(req.query))
        /\ calls = <<>>
        /\ agents = NoAgents

\* "page views" with the SEO intent firing too, and an empty identifier
C4_Witness ==
    /\ pc = "done"
    /\ Contains(Lower(req.query), <<"p","a","g","e"," ","v","i","e","w","s">>)
    /\ SEOIntent
    /\ req.propertyId = ""
    /\ result.resp.error = "propertyId is required for GA4 analytics queries"

BothSucceeded ==
    /\ agents.analytics.status = "returned" /\ agents.analytics.resp.error = "none"
    /\ agents.seo.status = "returned" /\ agents.seo.resp.error = "none"

\* C5: with both intents, an identifier and both agents succeeding, handle
\* returns the merged response: its data mapping has exactly the keys
\* analytics and seo, and its insight list is non-empty.
C5_MergedResponse ==
    (pc = "done" /\ GA4Intent /\ SEOIntent /\ HasIdentifier /\ BothSucceeded) =>
        /\ result.kind = "merged"
        /\ result.merged.keys = {"analytics", "seo"}
        /\ Len(result.merged.insights) > 0
        /\ result.merged.analytics = agents.analytics.resp
        /\ result.merged.seo = agents.seo.resp

C5_Witness ==
    /\ pc = "done"
    /\ Contains(Lower(req.query), <<"s","e","s","s","i","o","n","s">>)
    /\ Contains(Lower(req.query), <<"t","i","t","l","e">>)
    /\ BothSucceeded
    /\ result.kind = "merged"
    /\ result.merged.analytics.kind = "report"

\* what handle records for a domain, given what its agent did
Recorded(domain) ==
    IF agents[domain].status = "raised" THEN AgentFailed(domain) ELSE agents[domain].resp

\* C6: with both intents and an identifier, each agent is invoked exactly
\* once, analytics before SEO, whatever the other does; an agent's fault
\* (raised, or returned as an error envelope) is that domain's entry of the
\* merged data, and handle returns the merged response.
C6_BothAgentsRun ==
    (pc = "done" /\ GA4Intent /\ SEOIntent /\ HasIdentifier) =>
        /\ Count(calls, "ga4_agent.run") = 1
        /\ Count(calls, "seo_agent.run") = 1
        /\ calls[1] = "ga4_agent.run" /\ calls[Len(calls)] = "seo_agent.run"
        /\ agents.analytics.status \in {"returned", "raised"}
        /\ agents.seo.status \in {"returned", "raised"}
        /\ result.kind = "merged"
        /\ result.merged.keys = {"analytics", "seo"}
        /\ result.merged.analytics = Recorded("analytics")
        /\ result.merged.seo = Recorded("seo")
        /\ agents.analytics.status = "raised" => result.merged.analytics.error # "none"
        /\ agents.seo.status = "raised" => result.merged.seo.error # "none"

\* a fault was raised inside the analytics agent, and the SEO agent still ran
\* and reported
C6_Witness ==
    /\ pc = "done"
    /\ agents.analytics.status = "returned"
    /\ run.fault \notin {"none", "ValueError"}
    /\ agents.seo.status = "returned"
    /\ result.kind = "merged"
    /\ result.merged.analytics.error = "Analytics processing failed"
    /\ result.merged.seo.kind = "report"

\* C7: with no intent, handle returns the could-not-determine-intent error
\* with the supported intents and invokes no agent; with exactly one intent
\* (and an identifier for analytics) it invokes only that agent and returns
\* what the agent returned, unwrapped.
C7_SingleOrNoIntent ==
    pc = "done" =>
        /\ (~GA4Intent /\ ~SEOIntent) =>
              /\ result = Single(NoIntentError(req.query))
              /\ result.resp.supported_intents > 0
              /\ calls = <<>>
        /\ (GA4Intent /\ ~SEOIntent /\ HasIdentifier) =>
              /\ Count(calls, "ga4_agent.run") = 1
              /\ Count(calls, "seo_agent.run") = 0
              /\ result.kind = "single"
              /\ agents.analytics.status = "returned" => result.resp = agents.analytics.resp
        /\ (~GA4Intent /\ SEOIntent) =>
              /\ Count(calls, "seo_agent.run") = 1
              /\ Count(calls, "ga4_agent.run") = 0
              /\ result.kind = "single"
              /\ agents.seo.status = "returned" => result.resp = agents.seo.resp

\* only the analytics intent: the agent's report comes back as it is
C7_Witness ==
    /\ pc = "done"
    /\ GA4Intent /\ ~SEOIntent
    /\ result.kind = "single"
    /\ result.resp.kind = "report"
    /\ result.resp = agents.analytics.resp

\* C8: parse_analytics_query makes at most one completion call; when the
\* call raises or its content is not the expected JSON object the fallback
\* planner runs exactly once and its plan is returned; what is returned is
\* always a plan (a mapping).
C8_FallbackOnAnyBadAnswer ==
    unit.fn = "parse_analytics_query" =>
        /\ unit.pres.llm_calls <= 1
        /\ (unit.llm.kind # "value" \/ unit.llm.val.k # "obj") =>
              /\ unit.pres.fallback_calls = 1
              /\ unit.pres.plan = fallback_plan(unit.query)
        /\ unit.pres.plan.k = "obj"

\* C9: the fallback planner on the scenario query yields the user metrics,
\* dimensions that include country, and the 30-day token.
C9_FallbackScenario ==
    (unit.fn = "_fallback_plan" /\ unit.query = SampleQuery) =>
        /\ unit.plan.metrics = ListVal(<<"totalUsers", "activeUsers">>)
        /\ InList("country", unit.plan.dimensions.v)
        /\ unit.plan.date_range = StrVal(<<"l","a","s","t","_","3","0","_","d","a","y","s">>)

C9_Witness ==
    /\ unit.fn = "_fallback_plan"
    /\ unit.query = SampleQuery
    /\ unit.plan.dimensions = ListVal(<<"date", "country">>)

\* C10: "last_7_days", "last week" and "past_7_days" resolve to the one range
\* (7daysAgo, today), whose description is "Last 7 days".
C10_SevenDaySynonyms ==
    (unit.fn = "parse_date_range"
        /\ unit.label \in {<<"l","a","s","t","_","7","_","d","a","y","s">>, <<"l","a","s","t"," ","w","e","e","k">>, <<"p","a","s","t","_","7","_","d","a","y","s">>}) =>
        /\ unit.range = DateRange(<<"7","d","a","y","s","A","g","o">>, <<"t","o","d","a","y">>)
        /\ unit.text = <<"L","a","s","t"," ","7"," ","d","a","y","s">>

C10_Witness ==
    /\ unit.fn = "parse_date_range"
    /\ unit.label = <<"l","a","s","t"," ","w","e","e","k">>
    /\ unit.range.start_date = <<"7","d","a","y","s","A","g","o">>
    /\ unit.text = <<"L","a","s","t"," ","7"," ","d","a","y","s">>

\* labels "<N> <unit>" with one space between the number and the unit
SpacedNumbers == {<<"2">>, <<"3">>, <<"5">>, <<"7">>}
SpacedUnits == <<[word |-> <<"d","a","y">>, days |-> 1], [word |-> <<"d","a","y","s">>, days |-> 1],
                 [word |-> <<"w","e","e","k">>, days |-> 7], [word |-> <<"w","e","e","k","s">>, days |-> 7],
                 [word |-> <<"m","o","n","t","h">>, days |-> 30], [word |-> <<"m","o","n","t","h","s">>, days |-> 30]>>

\* C11: a label "<N> <day|week|month>[s]", with a space between the number
\* and the unit, resolves to (N, N*7 or N*30 daysAgo, today): "5 days" to
\* 5daysAgo, "3 weeks" to 21daysAgo, "2 months" to 60daysAgo.
C11_SpacedNumericLabels ==
    unit.fn = "parse_date_range" =>
        \A n \in SpacedNumbers : \A u \in 1..Len(SpacedUnits) :
            unit.label = n \o <<" ">> \o SpacedUnits[u].word =>
                unit.range = DateRange(IntToStr(StrToInt(n) * SpacedUnits[u].days) \o <<"d","a","y","s","A","g","o">>,
                                       <<"t","o","d","a","y">>)

\* the entries of the synonym table
TableLabels ==
    {<<"l","a","s","t","_","7","_","d","a","y","s">>, <<"l","a","s","t","_","w","e","e","k">>, <<"p","a","s","t","_","7","_","d","a","y","s">>, <<"l","a","s","t","_","1","4","_","d","a","y","s">>, <<"p","a","s","t","_","1","4","_","d","a","y","s">>,
     <<"t","w","o","_","w","e","e","k","s">>, <<"l","a","s","t","_","3","0","_","d","a","y","s">>, <<"l","a","s","t","_","m","o","n","t","h">>, <<"p","a","s","t","_","3","0","_","d","a","y","s">>, <<"l","a","s","t","_","9","0","_","d","a","y","s">>,
     <<"l","a","s","t","_","q","u","a","r","t","e","r">>, <<"p","a","s","t","_","9","0","_","d","a","y","s">>, <<"l","a","s","t","_","y","e","a","r">>, <<"p","a","s","t","_","y","e","a","r">>, <<"l","a","s","t","_","3","6","5","_","d","a","y","s">>,
     <<"y","e","s","t","e","r","d","a","y">>, <<"t","o","d","a","y">>, <<"c","u","r","r","e","n","t","_","d","a","y">>}

\* the label is neither a table entry nor holds "<N><spaces><unit>"
Unrecognized(label) ==
    /\ ReplaceSpaces(Lower(label)) \notin TableLabels
    /\ ~NumericMatch(Lower(label)).found

\* C12: parse_date_range returns a range for every string label and never
\* fails, and returns the range (7daysAgo, today) for a label that matches
\* neither the synonym table nor the numeric pattern.
C12_TotalWithDefault ==
    unit.fn = "parse_date_range" =>
        /\ unit.exc = "none"
        /\ Len(unit.range.start_date) > 0
        /\ unit.range.end_date \in {<<"t","o","d","a","y">>, <<"y","e","s","t","e","r","d","a","y">>}
        /\ Unrecognized(unit.label) => unit.range = DateRange(<<"7","d","a","y","s","A","g","o">>, <<"t","o","d","a","y">>)

\* an unrecognized word, resolved to the default
C12_Witness ==
    /\ unit.fn = "parse_date_range"
    /\ unit.label = <<"s","o","o","n">>
    /\ Unrecognized(unit.label)
    /\ unit.range = DateRange(<<"7","d","a","y","s","A","g","o">>, <<"t","o","d","a","y">>)

\* C13: with credentials.json absent or invalid the analytics agent is
\* constructed all the same, and its run on a query whose plan validates
\* returns a report of exactly 7 synthetic rows, never an error envelope
\* and never an exception.
C13_DemoModeReport ==
    cred \in {"absent", "invalid"} =>
        /\ orch # "failed"
        /\ (agents.analytics.status # "not_run" /\ run.validated # NoPlan) =>
              /\ agents.analytics.status = "returned"
              /\ agents.analytics.resp.kind = "report"
              /\ agents.analytics.resp.error = "none"
              /\ agents.analytics.resp.rows = DemoRows

\* every metric value of the rows lies in the band of its metric
InBands(plan, rows) ==
    \A i \in 1..Len(rows) : \A j \in 1..Len(plan.metrics.v) :
        /\ rows[i].metric_values[j] >= MetricBand(plan.metrics.v[j]).lo
        /\ rows[i].metric_values[j] <= MetricBand(plan.metrics.v[j]).hi

Deductions(d) ==
    LET some(issue(_)) == \E i \in 1..Len(d.pages) : issue(d.pages[i])
    IN  (IF some(LAMBDA p : p.address.k = "str" /\ ~StartsWithAt(p.address.v, 1, <<"h","t","t","p","s",":","/","/">>))
         THEN 20 ELSE 0)
        + (IF some(LAMBDA p : p.title.k = "null" \/ p.title.v = <<>>) THEN 15 ELSE 0)
        + (IF some(LAMBDA p : p.title.k = "str" /\ Len(p.title.v) > 60) THEN 10 ELSE 0)
        + (IF some(LAMBDA p : p.meta.k = "null" \/ p.meta.v = <<>>) THEN 10 ELSE 0)
        + (IF d.has_status /\ some(LAMBDA p : p.status # 200) THEN 15 ELSE 0)

\* C15: general_seo_health returns the score 100 minus the weights of the
\* triggered checks (HTTPS 20, missing titles 15, long titles 10, missing
\* meta descriptions 10, non-200 status 15), floored at 0, a check being
\* triggered by at least one row; 65 for the 5-row scenario.
C15_HealthScore ==
    unit.fn = "general_seo_health" =>
        /\ unit.health.error = "none"
        /\ unit.health.health_score =
              (IF Deductions(unit.data) > 100 THEN 0 ELSE 100 - Deductions(unit.data))
        /\ unit.data.pages = ScenarioPages => unit.health.health_score = 65

\* the reporting call returned a response without rows
BackendReturnedNoRows ==
    /\ agents.analytics.status # "not_run"
    /\ run.response.kind = "rows"
    /\ run.response.rows = 0

\* C16: when the backend returns zero rows for a validated plan, run returns
\* the no-data report: no error field, no rows, at least one explanatory
\* reason and one suggestion, and the plan's metrics and dimensions; it is
\* neither an error envelope nor the ordinary formatted report.
C16_NoDataReport ==
    BackendReturnedNoRows =>
        /\ run.validated = run.plan
        /\ agents.analytics.status = "returned"
        /\ agents.analytics.resp.kind = "no_data"
        /\ agents.analytics.resp.error = "none"
        /\ agents.analytics.resp.rows = 0
        /\ agents.analytics.resp.possible_reasons > 0
        /\ agents.analytics.resp.suggestions > 0
        /\ agents.analytics.resp.metrics = run.plan.metrics
        /\ agents.analytics.resp.dimensions = run.plan.dimensions
        /\ agents.analytics.resp # format_response(0, run.plan, req.query)

\* a validated plan with a dimension was executed and the backend had no rows
C16_Witness ==
    /\ pc = "done"
    /\ BackendReturnedNoRows
    /\ Len(run.plan.dimensions.v) > 0
    /\ agents.analytics.resp.kind = "no_data"
    /\ result.kind = "single"
    /\ result.resp = agents.analytics.resp

\* validate_plan raised ValueError on the parsed plan
PlanRejected ==
    /\ agents.analytics.status # "not_run"
    /\ Count(calls, "validate_plan") = 1
    /\ validate_plan(run.plan).exc = "ValueError"

\* C17: when validate_plan rejects the parsed plan, run returns (it does not
\* raise) the validation envelope: the list of offending fields with their
\* bad values, the original query and both allowlists.
C17_ValidationEnvelope ==
    PlanRejected =>
        /\ agents.analytics.status = "returned"
        /\ agents.analytics.resp.kind = "error"
        /\ agents.analytics.resp.error = "Query validation failed"
        /\ agents.analytics.resp.errors = validate_plan(run.plan).errors
        /\ Len(agents.analytics.resp.errors) > 0
        /\ agents.analytics.resp.has_query
        /\ agents.analytics.resp.query = req.query
        /\ agents.analytics.resp.allowed_metrics = ALLOWED_METRICS
        /\ agents.analytics.resp.allowed_dimensions = ALLOWED_DIMENSIONS
        /\ ~Executed

\* a plan with a metric and a dimension outside the allowlists was rejected
C17_Witness ==
    /\ pc = "done"
    /\ PlanRejected
    /\ Len(ErrorsOfKind(agents.analytics.resp.errors, "Invalid metrics")) = 1
    /\ Len(ErrorsOfKind(agents.analytics.resp.errors, "Invalid dimensions")) = 1
    /\ agents.analytics.resp.allowed_metrics = ALLOWED_METRICS

\* the SEO agent ran a routine on a dataset lacking a column the routine reads
MissingColumn ==
    /\ agents.seo.status # "not_run"
    /\ RequiredColumns(parse_seo_query(req.query)) \ df.columns # {}

\* C18: each of the five analysis routines, run on a dataset that lacks a
\* column it expects, does not raise and returns a result that reports which
\* columns are available.
C18_MissingColumnReported ==
    MissingColumn =>
        /\ agents.seo.status = "returned"
        /\ agents.seo.resp.available_columns = df.columns

\* a fault was raised in GA4Agent.run by the reporting call or by formatting
ExecutionFault ==
    /\ agents.analytics.status # "not_run"
    /\ Count(calls, "_execute_ga4_request") = 1
    /\ run.fault # "none"

\* a fault was raised inside SEOAgent.run: a routine read a column the
\* dataset lacks, or used the string accessor on a column without strings
SEOFault ==
    /\ agents.seo.status # "not_run"
    /\ \/ RequiredColumns(parse_seo_query(req.query)) \ df.columns # {}
       \/ ~df.str_ok

\* C19: a fault raised by the reporting call or by response formatting in
\* GA4Agent.run, and a fault raised inside SEOAgent.run, is caught at the agent
\* boundary: run returns an error envelope carrying the original query and
\* does not raise to the orchestrator.
C19_CaughtAtAgentBoundary ==
    /\ ExecutionFault =>
          /\ agents.analytics.status = "returned"
          /\ agents.analytics.resp.kind = "error"
          /\ agents.analytics.resp.error # "none"
          /\ agents.analytics.resp.has_query
          /\ agents.analytics.resp.query = req.query
    /\ SEOFault =>
          /\ agents.seo.status = "returned"
          /\ agents.seo.resp.kind = "error"
          /\ agents.seo.resp.error # "none"
          /\ agents.seo.resp.has_query
          /\ agents.seo.resp.query = req.query

\* in one request the reporting call raised and the SEO routine used the
\* string accessor on a column without strings; both agents returned their
\* envelopes
C19_Witness ==
    /\ pc = "done"
    /\ ExecutionFault
    /\ run.response.kind = "raise"
    /\ SEOFault
    /\ ~df.str_ok
    /\ result.kind = "merged"
    /\ result.merged.analytics.query = req.query
    /\ result.merged.seo.query = req.query

\* the three metric rules of the fallback planner, as tests on the query
UserTerms(query) == AnyIn(Lower(query), <<<<"u","s","e","r">>, <<"v","i","s","i","t","o","r">>, <<"a","u","d","i","e","n","c","e">>>>)
PageViewTerms(query) == AnyIn(Lower(query), <<<<"p","a","g","e"," ","v","i","e","w">>, <<"p","a","g","e","v","i","e","w">>, <<"v","i","e","w","s">>>>)
BounceTerms(query) == AnyIn(Lower(query), <<<<"b","o","u","n","c","e">>, <<"e","n","g","a","g","e","m","e","n","t">>>>)

\* the list of the last matching rule, or the default
LastMatchingRule(query) ==
    IF BounceTerms(query) THEN <<"bounceRate">>
    ELSE IF PageViewTerms(query) THEN <<"screenPageViews">>
    ELSE IF UserTerms(query) THEN <<"totalUsers", "activeUsers">>
    ELSE <<"sessions">>

\* C20: the fallback planner's metrics are exactly the list of the last
\* matching metric rule (bounce over page views over users), or [sessions]
\* when no rule matches; the lists of different rules are never combined.
C20_LastMetricRuleWins ==
    unit.fn = "_fallback_plan" =>
        unit.plan.metrics = ListVal(LastMatchingRule(unit.query))

\* a query matching the user rule and the bounce rule
C20_Witness ==
    /\ unit.fn = "_fallback_plan"
    /\ UserTerms(unit.query)
    /\ BounceTerms(unit.query)
    /\ ~PageViewTerms(unit.query)
    /\ unit.plan.metrics = ListVal(<<"bounceRate">>)

\* the three dimension rules of the fallback planner, as tests on the query
PageTerms(query) == AnyIn(Lower(query), <<<<"p","a","g","e">>, <<"u","r","l">>, <<"p","a","t","h">>>>)
CountryTerms(query) == AnyIn(Lower(query), <<<<"c","o","u","n","t","r","y">>, <<"l","o","c","a","t","i","o","n">>, <<"g","e","o">>>>)
DeviceTerms(query) == AnyIn(Lower(query), <<<<"d","e","v","i","c","e">>, <<"m","o","b","i","l","e">>, <<"d","e","s","k","t","o","p">>>>)

\* date, then the matching ones of pagePath, country, deviceCategory
DateThenMatching(query) ==
    <<"date">>
    \o (IF PageTerms(query) THEN <<"pagePath">> ELSE <<>>)
    \o (IF CountryTerms(query) THEN <<"country">> ELSE <<>>)
    \o (IF DeviceTerms(query) THEN <<"deviceCategory">> ELSE <<>>)

\* C21: the fallback planner's dimensions are date followed by the matching
\* ones of pagePath, country, deviceCategory in that order, each at most once;
\* the branch of the page rule that appends pagePath is never taken, because
\* date is in the dimensions when the rule is evaluated.
C21_FallbackDimensions ==
    unit.fn = "_fallback_plan" =>
        /\ unit.plan.dimensions = ListVal(DateThenMatching(unit.query))
        /\ page_rule_branch(Lower(unit.query), <<"date">>) # "append"
        /\ PageTerms(unit.query) =>
               page_rule_branch(Lower(unit.query), <<"date">>) = "replace"

\* a query matching the page rule and the country rule
C21_Witness ==
    /\ unit.fn = "_fallback_plan"
    /\ PageTerms(unit.query)
    /\ CountryTerms(unit.query)
    /\ unit.plan.dimensions = ListVal(<<"date", "pagePath", "country">>)

\* the number of rows of the dataset whose title satisfies the test
TitlesWhere(test(_)) ==
    Cardinality({i \in DOMAIN unit.data.pages : test(unit.data.pages[i].title)})

\* the examples of one category among the issues reported
ExamplesOf(issue) == SelectSeq(unit.titles.issues, LAMBDA e : e.issue = issue)

\* the examples that belong to neither the missing nor the long category
OtherExamples ==
    SelectSeq(unit.titles.issues,
              LAMBDA e : e.issue \notin {"Missing title tag", "Title exceeds threshold"})

AtMostFive(n) == IF n < 5 THEN n ELSE 5

\* C22: analyze_titles reports the counts of missing titles (null or empty),
\* of titles over the threshold and of titles under 30 characters, and emits
\* examples for each of the three categories, at most 5 per category, each
\* carrying a recommendation.
C22_TitleAnalysis ==
    (unit.fn = "analyze_titles" /\ unit.titles.error = "none") =>
        /\ unit.titles.statistics.missing_titles = TitlesWhere(IsMissing)
        /\ unit.titles.statistics.long_titles
              = TitlesWhere(LAMBDA t : t.k = "str" /\ Len(t.v) > 60)
        /\ unit.titles.statistics.short_titles
              = TitlesWhere(LAMBDA t : t.k = "str" /\ Len(t.v) < 30)
        /\ Len(ExamplesOf("Missing title tag"))
              = AtMostFive(unit.titles.statistics.missing_titles)
        /\ Len(ExamplesOf("Title exceeds threshold"))
              = AtMostFive(unit.titles.statistics.long_titles)
        /\ Len(OtherExamples) = AtMostFive(unit.titles.statistics.short_titles)
        /\ \A k \in DOMAIN unit.titles.issues : unit.titles.issues[k].recommendation # ""

FallbackProduced ==
    \/ unit.fn = "_fallback_plan"
    \/ unit.fn = "parse_analytics_query" /\ unit.pres.fallback_calls = 1

FallbackPlan == IF unit.fn = "_fallback_plan" THEN unit.plan ELSE unit.pres.plan

\* C24: for every query the fallback planner's plan is accepted by
\* validate_plan (metrics and dimensions in the allowlists, metrics non-empty,
\* a date range present), and its date_range is an entry of the date
\* resolver's synonym table, not a label left to the default branch.
C24_FallbackPlanValid ==
    FallbackProduced =>
        /\ validate_plan(FallbackPlan) = [exc |-> "none", errors |-> <<>>]
        /\ WithinAllowlists(FallbackPlan)
        /\ FallbackPlan.date_range.k = "str"
        /\ ReplaceSpaces(Lower(FallbackPlan.date_range.v)) \in TableLabels
        /\ ~Unrecognized(FallbackPlan.date_range.v)

\* a query for which every kind of rule fired: metric, dimension and date
C24_Witness ==
    /\ unit.fn = "_fallback_plan"
    /\ unit.plan.metrics = ListVal(<<"screenPageViews">>)
    /\ unit.plan.dimensions = ListVal(<<"date", "pagePath">>)
    /\ unit.plan.date_range = StrVal(<<"l","a","s","t","_","1","4","_","d","a","y","s">>)
    /\ validate_plan(unit.plan).exc = "none"

\* the number of checks that at least one row of the dataset triggers
ChecksTriggered(d) ==
    LET some(issue(_)) == \E i \in 1..Len(d.pages) : issue(d.pages[i])
        one(b) == IF b THEN 1 ELSE 0
    IN  one(some(LAMBDA p : p.address.k = "str" /\ ~StartsWithAt(p.address.v, 1, <<"h","t","t","p","s",":","/","/">>)))
        + one(some(LAMBDA p : p.title.k = "null" \/ p.title.v = <<>>))
        + one(some(LAMBDA p : p.title.k = "str" /\ Len(p.title.v) > 60))
        + one(some(LAMBDA p : p.meta.k = "null" \/ p.meta.v = <<>>))
        + one(d.has_status /\ some(LAMBDA p : p.status # 200))

\* C25: on every dataset on which general_seo_health completes, the score is
\* between 30 and 100 (the five deductions sum to 70, so the floor at 0 never
\* binds) and issues_found is the number of deductions applied.
C25_ScoreRange ==
    (unit.fn = "general_seo_health" /\ unit.health.error = "none") =>
        /\ unit.health.health_score >= 30
        /\ unit.health.health_score <= 100
        /\ unit.health.health_score = 100 - Deductions(unit.data)
        /\ unit.health.issues_found = ChecksTriggered(unit.data)
        /\ unit.health.issues_found = Len(unit.health.issues)

\* a dataset that triggers all five checks
C25_Witness ==
    /\ unit.fn = "general_seo_health"
    /\ unit.health.error = "none"
    /\ unit.health.health_score = 30
    /\ unit.health.issues_found = 5

\* C26: run returns the validation envelope ("Query validation failed", with
\* the allowlists) only when validate_plan rejected the plan; a fault raised
\* after validation, by the backend call, date resolution or formatting, is
\* reported with the execution-failure envelope whatever its type.
C26_EnvelopeByStage ==
    /\ (agents.analytics.status = "returned"
            /\ agents.analytics.resp.error = "Query validation failed") =>
          /\ validate_plan(run.plan).exc = "ValueError"
          /\ ~Executed
    /\ ExecutionFault =>
          /\ agents.analytics.status = "returned"
          /\ agents.analytics.resp = ExecutionEnvelope(req.query)

\* C27: the SEO domain is served whatever the state of the analytics
\* credentials: with credentials.json absent or invalid the Orchestrator is
\* constructed all the same, and a request for which only the SEO intent
\* fires is answered with what the SEO agent returned.
C27_SEOWithoutCredentials ==
    cred \in {"absent", "invalid"} =>
        /\ orch # "failed"
        /\ (pc = "done" /\ ~GA4Intent /\ SEOIntent) =>
              /\ agents.seo.status = "returned"
              /\ result.kind = "single"
              /\ result.resp = agents.seo.resp

====
